---- MODULE Spec2Model ----
(***************************************************************************)
(* Security telemetry and enforcement core of SANDRO.                      *)
(*                                                                         *)
(*   AssetProtectionService  (signed grants)      SpecGrant                *)
(*   APIObfuscator.checkRateLimit (rate limiter)  SpecRate                 *)
(*   SecurityEventLogger     (event pipeline)     SpecPipeline             *)
(*   IntegrityVerifier       (integrity monitor)  SpecIntegrity            *)
(*   DevToolsDetector        (probe fusion)       SpecDevTools             *)
(*                                                                         *)
(* All components run on one cooperative JavaScript timeline: a            *)
(* synchronous method is one atomic action, an async method is split at    *)
(* its awaits.  Each component has its own specification; the variables of *)
(* the other components stay at their initial values.                      *)
(***************************************************************************)
EXTENDS Integers, Sequences, FiniteSets, TLC

\* ------------------------------------------------------------------------
\* Bounds of the model (not program constants)
\* ------------------------------------------------------------------------
MaxTokens == 2          \* grants issued in one behaviour
MaxValidations == 3     \* validateSignedUrl calls in one behaviour
MaxRequests == 2        \* requests with all three parameters in one behaviour
MaxNow == 61000         \* the clock (ms) stops advancing past this value
MaxRateCalls == 103     \* checkRateLimit calls in one behaviour
MaxRateNow == 3661000   \* the clock of the rate limiter's idle hours stops here
MaxTicks == 2           \* runDetection calls in one behaviour
MaxFailureCount == 4    \* no new check pass once an element has failed this often in a row
MaxPasses == 2          \* performIntegrityCheck activations suspended at one time
MaxEvents == 4          \* events created in one behaviour
MaxBatches == 2         \* batches built in one behaviour
MaxNest == 1            \* console events logged by one console call before the stack overflows
MaxInFlight == 2        \* transmissions pending at one time
MaxSessions == 2        \* page sessions, each constructing its logger

\* ------------------------------------------------------------------------
\* Shared values
\* ------------------------------------------------------------------------
\* null, for a value that is otherwise a tuple (an asset path, a URL)
Null == <<"null">>
\* NaN compares false with every number: it is kept as a number above every
\* clock value and every expiry, so that `Date.now() > NaN` is false, and it
\* equals no expiry a signature was made for
NaN == 999999999

\* Date.now(): the clock advances in steps of 60 s and 61 s, so that a grant
\* of one minute is probed at its issue, exactly 60 s and 61 s after it.
ClockSteps == {60000, 61000}

VARIABLES
  now,            \* Date.now(), in ms
  \* AssetProtectionService
  apsEnabled,     \* config.enabled
  urlExpiration,  \* config.urlExpiration, minutes
  tokenCache,     \* Map token -> {originalPath, expires}
  accessLogs,     \* AssetAccessLog[]
  grants,         \* SignedAssetUrl values returned to callers (with the path asked for)
  issueResult,    \* outcome of the last generateSignedUrl call
  lastValidate,   \* arguments, time and return value of the last validateSignedUrl call
  pairLog,        \* per token: calls made with the issued arguments before the issued
                  \* expiry and with no revokeAllTokens since the issue, and how many of
                  \* them returned the issued path
  revoked,        \* tokens that had been issued when revokeAllTokens last ran
  unswept,        \* the tokenCache of the same run with the cleanup interval never firing
  response,       \* what the proxy middleware did with the request it has just handled
  \* APIObfuscator (rate limiter)
  rateLimitStore, \* Map key -> RateLimitEntry
  lastCheck,      \* key and outcome of the last checkRateLimit call
  window,         \* per key: start of the current window and the calls made in it
  rotationTimer,  \* APIObfuscator.rotationTimer: the rotation interval is set
  rateCalls,      \* checkRateLimit calls made so far
  fetchLog,       \* calls of the replaced window.fetch: how many were made, how many
                  \* failed the rate-limit check, how many calls of the original fetch
                  \* they made, and whether the last one rejected
  passLog,        \* for the key under observation (if any): the calls that passed, by
                  \* time, in the interval shorter than windowSize that ends at its last
                  \* passing call
  \* DevToolsDetector
  dtConfig,         \* config: detectionMethods, confidenceThreshold, blockOnDetection
  isDetecting,
  detectionInterval,\* whether the interval timer is set
  lastDetection,
  detectionHistory,
  warningShown,
  lastTick,         \* the last runDetection: its results, the handler invocations, whether it threw
  \* IntegrityVerifier
  dom,              \* the monitored code elements of the page: id -> content
  ivConfig,         \* config: enabled, maxFailures
  buildTimeHashes,  \* Map id -> expected hash
  checks,           \* Map id -> IntegrityCheck
  isVerifying,
  intervalId,       \* whether the interval timer is set
  passes,           \* performIntegrityCheck activations suspended at an await
  lastResult,       \* what the last completed performIntegrityCheck resolved to, whether
                    \* it compared anything, and the elements it left unverified
  emitted,          \* per id: TamperEvents handed to onTamperDetected in the current run of
                    \* consecutive mismatches, by severity
  \* SecurityEventLogger
  sessionId,        \* the page session the logger belongs to
  elConfig,         \* config: enabled, endpoint (whether one is configured), batchSize, maxRetries
  eventQueue,       \* SecurityEvent[]
  retryQueue,       \* EventBatch[]
  isOnline,
  flushTimer,       \* whether the periodic flush interval is set
  retryTimers,      \* pending setTimeout callbacks of scheduleRetry
  inFlight,         \* flush() and retry callbacks suspended at `await this.sendBatch(batch)`
  localStore,       \* localStorage[localStorageKey]: the stored EventBatch[]
  nextId,           \* ids handed out so far, for events and for batches
  created,          \* every EventBatch built by flush() or flushBeforeUnload(), as built
  delivered,        \* the batches the endpoint has accepted, as received
  dropped,          \* batches that left the pipeline undelivered and unstored
  logCalls,         \* logEvent calls made by producers, and whether the last one threw
  quiet,            \* nothing but producers' logEvent calls (and what they start) has
                    \* happened since the first logger was constructed
  \* SecurityMonitor
  smConfig,         \* config: eventLogging.enabled, alertThresholds, autoResponse
  isActive,
  monitoringTimer,  \* whether the monitoring interval is set
  alerts,           \* SecurityAlert[]
  metrics,          \* the stored metrics: threatLevel, "undefined" while metrics is {}
  issued,           \* every alert created so far, and whether escalateAlert was called for it
  reported,         \* the threat level returned by the getMetrics() or getStatus() call
                    \* that has just been made
  blocked,          \* document.body replaced by the emergency block page
  warnings          \* showSecurityWarning notifications created so far

serviceVars == <<apsEnabled, urlExpiration, tokenCache, accessLogs, grants,
                 issueResult, lastValidate, pairLog, revoked, unswept>>

grantVars == <<serviceVars, response>>

rateVars == <<rateLimitStore, lastCheck, window, passLog, rotationTimer, rateCalls, fetchLog>>

devToolsVars == <<dtConfig, isDetecting, detectionInterval, lastDetection,
                  detectionHistory, warningShown, lastTick>>

integrityVars == <<dom, ivConfig, buildTimeHashes, checks, isVerifying, intervalId,
                   passes, lastResult, emitted>>

pipelineVars == <<sessionId, elConfig, eventQueue, retryQueue, isOnline, flushTimer, retryTimers,
                  inFlight, localStore, nextId, created, delivered, dropped, logCalls, quiet>>

monitorVars == <<smConfig, isActive, monitoringTimer, alerts, metrics, issued, reported,
                 blocked, warnings>>

vars == <<now, grantVars, rateVars, devToolsVars, integrityVars, pipelineVars, monitorVars>>

\* what a step of one component leaves alone
nonGrantVars == <<rateVars, devToolsVars, integrityVars, pipelineVars, monitorVars>>
nonRateVars == <<grantVars, devToolsVars, integrityVars, pipelineVars, monitorVars>>
nonDevToolsVars == <<grantVars, rateVars, integrityVars, pipelineVars, monitorVars>>
nonIntegrityVars == <<grantVars, rateVars, devToolsVars, pipelineVars, monitorVars>>
nonPipelineVars == <<now, grantVars, rateVars, devToolsVars, integrityVars, monitorVars>>
nonMonitorVars == <<grantVars, rateVars, devToolsVars, integrityVars, pipelineVars>>

\* ========================================================================
\* AssetProtectionService
\* ========================================================================
Tokens == 1..MaxTokens
UnknownToken == 0
\* asset paths, as the sequence of their pieces; every dot is a piece of its own
Paths == {<<"/img/a", ".", "png">>, <<"/img/b", ".", "jpg">>, <<"/bin/tool", ".", "exe">>,
          <<"/bin/tool">>, <<"/v1", ".", "2/readme">>}
allowedExtensions ==
  {<<".", e>> : e \in {"jpg", "jpeg", "png", "webp", "avif", "glb", "gltf", "json", "bin"}}
TtlChoices == {1, 2}
ForgedSignature == <<"forged">>
MaxAccessLogs == 1000

\* Map.set and Map.delete on a map kept as a function
MapSet(m, k, v) == [x \in DOMAIN m \cup {k} |-> IF x = k THEN v ELSE m[x]]
MapDelete(m, ks) == [x \in DOMAIN m \ ks |-> m[x]]

NoValidate == [seq |-> 0, token |-> UnknownToken, sig |-> <<>>, exp |-> 0, at |-> 0,
               ret |-> Null, reason |-> "", found |-> FALSE, inCache |-> FALSE, wasRevoked |-> FALSE,
               retUnswept |-> Null, foundUnswept |-> FALSE]

\* String.prototype.lastIndexOf, 0-based, -1 when the piece does not occur
lastIndexOf(str, piece) ==
  LET hits == {i \in 1..Len(str) : str[i] = piece}
  IN IF hits = {} THEN 0 - 1 ELSE (CHOOSE i \in hits : \A j \in hits : j <= i) - 1

\* String.prototype.substring(start): a start below 0 counts as 0
substring(str, start) ==
  LET from == IF start < 0 THEN 0 ELSE IF start > Len(str) THEN Len(str) ELSE start
  IN SubSeq(str, from + 1, Len(str))

getFileExtension(filePath) == substring(filePath, lastIndexOf(filePath, "."))

\* HmacSHA256(`${token}:${expires}:${assetPath}`, signatureKey) with the
\* process-lifetime key: a keyed hash is modelled symbolically, as the term
\* built from what was hashed (equal inputs give equal signatures, different
\* inputs different ones).
generateSignature(token, expires, assetPath) == <<"hmac", token, expires, assetPath>>

\* logAccess: append, and drop the oldest entry beyond 1000
logAccess(logs, token, success, reason) ==
  LET pushed == Append(logs, [token |-> token, timestamp |-> now,
                              success |-> success, reason |-> reason])
  IN IF Len(pushed) > MaxAccessLogs THEN Tail(pushed) ELSE pushed

\* generateSecureToken: timestamp and 16 random bytes; modelled as a token
\* that no earlier grant carries.
generateSecureToken == Cardinality(grants) + 1

GrantInit ==
  /\ apsEnabled \in BOOLEAN
  /\ urlExpiration \in TtlChoices
  /\ tokenCache = <<>>
  /\ accessLogs = <<>>
  /\ grants = {}
  /\ issueResult = [kind |-> "none", url |-> Null, token |-> UnknownToken]
  /\ lastValidate = NoValidate
  /\ pairLog = [t \in Tokens |-> [calls |-> 0, ok |-> 0]]
  /\ revoked = {}
  /\ unswept = <<>>
  /\ response = [status |-> 0, body |-> "", headers |-> {}, next |-> FALSE, url |-> Null,
                 cause |-> "none"]

\* the grant issued under a token, and whether a call presents exactly what
\* generateSignedUrl returned for it
GrantOf(token) == CHOOSE g \in grants : g.token = token
IssuedArguments(token, providedSignature, expires) ==
  \E g \in grants : g.token = token /\ g.signature = providedSignature /\ g.expires = expires

generateSignedUrl_NoExtensionCheck(assetPath) ==
  /\ Cardinality(grants) < MaxTokens
  /\ apsEnabled
  /\ LET token == generateSecureToken
         expires == now + urlExpiration * 60 * 1000
         signature == generateSignature(token, expires, assetPath)
     IN /\ tokenCache' = MapSet(tokenCache, token,
                            [originalPath |-> assetPath, expires |-> expires])
        /\ grants' = grants \cup {[token |-> token, expires |-> expires,
                                   signature |-> signature, path |-> assetPath]}
        /\ issueResult' = [kind |-> "ok", url |-> <<token, expires, signature>>,
                           token |-> token]
        /\ unswept' = MapSet(unswept, token,
                            [originalPath |-> assetPath, expires |-> expires])
  /\ UNCHANGED <<now, apsEnabled, urlExpiration, accessLogs, lastValidate, pairLog, revoked>>

generateSignedUrl(assetPath) ==
  /\ Cardinality(grants) < MaxTokens
  /\ IF ~apsEnabled
       THEN /\ issueResult' = [kind |-> "passthrough", url |-> assetPath, token |-> UnknownToken]
            /\ UNCHANGED <<tokenCache, grants, unswept>>
       ELSE IF getFileExtension(assetPath) \notin allowedExtensions
         THEN /\ issueResult' = [kind |-> "throw", url |-> Null, token |-> UnknownToken]
              /\ UNCHANGED <<tokenCache, grants, unswept>>
         ELSE LET token == generateSecureToken
                  expires == now + urlExpiration * 60 * 1000
                  signature == generateSignature(token, expires, assetPath)
              IN /\ tokenCache' = MapSet(tokenCache, token,
                                     [originalPath |-> assetPath, expires |-> expires])
                 /\ grants' = grants \cup {[token |-> token, expires |-> expires,
                                            signature |-> signature, path |-> assetPath]}
                 /\ issueResult' = [kind |-> "ok", url |-> <<token, expires, signature>>,
                                    token |-> token]
                 /\ unswept' = MapSet(unswept, token,
                                     [originalPath |-> assetPath, expires |-> expires])
  /\ UNCHANGED <<now, apsEnabled, urlExpiration, accessLogs, lastValidate, pairLog, revoked>>

\* the outcome of validateSignedUrl in the current state:
\* <<return value, reason logged, whether the mapping is deleted>>
validateOutcome_NoSignatureCheck(token, providedSignature, expires) ==
  IF token \notin DOMAIN tokenCache
    THEN <<Null, "Token not found", FALSE>>
  ELSE IF now > expires \/ now > tokenCache[token].expires
    THEN <<Null, "Token expired", TRUE>>
  ELSE <<tokenCache[token].originalPath, "", FALSE>>

validateOutcome(token, providedSignature, expires) ==
  IF token \notin DOMAIN tokenCache
    THEN <<Null, "Token not found", FALSE>>
  ELSE IF now > expires \/ now > tokenCache[token].expires
    THEN <<Null, "Token expired", TRUE>>
  ELSE IF providedSignature # generateSignature(token, expires, tokenCache[token].originalPath)
    THEN <<Null, "Invalid signature", FALSE>>
  ELSE <<tokenCache[token].originalPath, "", FALSE>>

\* what the same call returns, and whether it deletes the mapping, in the run
\* whose cleanup interval never fires: <<return value, deleted>>
unsweptOutcome(token, providedSignature, expires) ==
  IF token \notin DOMAIN unswept
    THEN <<Null, FALSE>>
  ELSE IF now > expires \/ now > unswept[token].expires
    THEN <<Null, TRUE>>
  ELSE IF providedSignature # generateSignature(token, expires, unswept[token].originalPath)
    THEN <<Null, FALSE>>
  ELSE <<unswept[token].originalPath, FALSE>>

validateSignedUrl(token, providedSignature, expires) ==
  /\ lastValidate.seq < MaxValidations
  /\ IF ~apsEnabled
       THEN /\ lastValidate' = [seq |-> lastValidate.seq + 1,
                                token |-> token, sig |-> providedSignature, exp |-> expires,
                                at |-> now, ret |-> Null, reason |-> "disabled",
                                found |-> FALSE, inCache |-> FALSE, wasRevoked |-> token \in revoked,
                                retUnswept |-> Null, foundUnswept |-> token \in DOMAIN unswept]
            /\ UNCHANGED <<tokenCache, accessLogs, pairLog, unswept>>
       ELSE LET out == validateOutcome(token, providedSignature, expires)
            IN /\ tokenCache' = IF out[3] THEN MapDelete(tokenCache, {token})
                                ELSE tokenCache
               /\ accessLogs' = logAccess(accessLogs, token, out[1] # Null, out[2])
               /\ pairLog' = IF IssuedArguments(token, providedSignature, expires)
                                  /\ now < expires /\ token \notin revoked
                               THEN [pairLog EXCEPT ![token] =
                                       [calls |-> @.calls + 1,
                                        ok |-> @.ok + (IF out[1] = GrantOf(token).path
                                                         THEN 1 ELSE 0)]]
                               ELSE pairLog
               /\ lastValidate' = [seq |-> lastValidate.seq + 1,
                                   token |-> token, sig |-> providedSignature, exp |-> expires,
                                   at |-> now, ret |-> out[1], reason |-> out[2],
                                   found |-> token \in DOMAIN tokenCache,
                                   inCache |-> token \in DOMAIN tokenCache',
                                   wasRevoked |-> token \in revoked,
                                   retUnswept |-> unsweptOutcome(token, providedSignature,
                                                                 expires)[1],
                                   foundUnswept |-> token \in DOMAIN unswept]
               /\ unswept' = IF unsweptOutcome(token, providedSignature, expires)[2]
                                THEN MapDelete(unswept, {token}) ELSE unswept
  /\ UNCHANGED <<now, apsEnabled, urlExpiration, grants, issueResult, revoked>>

\* the arguments a caller can present: anything seen in an issued URL, a
\* forged signature, an expiry of its own choosing
PresentableTokens == Tokens \cup {UnknownToken}
PresentableSignatures == {g.signature : g \in grants} \cup {ForgedSignature}
PresentableExpiries == {g.expires : g \in grants} \cup {0}

revokeAllTokens_KeepsUnexpired ==
  /\ tokenCache' = MapDelete(tokenCache,
                     {t \in DOMAIN tokenCache : now > tokenCache[t].expires})
  /\ unswept' = MapDelete(unswept, {t \in DOMAIN unswept : now > unswept[t].expires})
  /\ revoked' = {g.token : g \in grants}
  /\ UNCHANGED <<now, apsEnabled, urlExpiration, accessLogs, grants, issueResult,
                 lastValidate, pairLog>>

revokeAllTokens ==
  /\ tokenCache' = <<>>
  /\ unswept' = <<>>
  /\ revoked' = {g.token : g \in grants}
  /\ UNCHANGED <<now, apsEnabled, urlExpiration, accessLogs, grants, issueResult,
                 lastValidate, pairLog>>

\* a sweep that empties the cache
cleanupTick_RemovesAll ==
  /\ apsEnabled
  /\ tokenCache' = <<>>
  /\ UNCHANGED <<now, apsEnabled, urlExpiration, accessLogs, grants, issueResult,
                 lastValidate, pairLog, revoked, unswept>>

\* the callback of startCleanupInterval (installed only when enabled)
cleanupTick ==
  /\ apsEnabled
  /\ tokenCache' = MapDelete(tokenCache,
                     {t \in DOMAIN tokenCache : now > tokenCache[t].expires})
  /\ UNCHANGED <<now, apsEnabled, urlExpiration, accessLogs, grants, issueResult,
                 lastValidate, pairLog, revoked, unswept>>

AdvanceClock ==
  \E d \in ClockSteps :
    /\ now + d <= MaxNow
    /\ now' = now + d

\* no request has been handled since the last other step
NoResponse == [status |-> 0, body |-> "", headers |-> {}, next |-> FALSE, url |-> Null,
               cause |-> "none"]

\* a query parameter is kept as the number its leading digits spell (if it
\* starts with digits) and the characters after them; parseInt gives that
\* number, or NaN
parseInt(str) == IF str.digits THEN str.number ELSE NaN

\* the query parameters a caller can send for exp: the digits of an expiry,
\* the same followed by other characters, and no digits at all
PresentableExpStrings ==
  {[digits |-> TRUE, number |-> e, rest |-> ""] : e \in PresentableExpiries}
    \cup {[digits |-> TRUE, number |-> g.expires, rest |-> "x"] : g \in grants}
    \cup {[digits |-> FALSE, number |-> 0, rest |-> "x"]}

createProxyMiddleware_ReasonInBody(hasToken, token, hasExp, exp, hasSig, sig) ==
  IF ~hasToken \/ ~hasExp \/ ~hasSig
    THEN /\ response' = [status |-> 403, body |-> "Access denied", headers |-> {},
                         next |-> FALSE, url |-> Null, cause |-> "missing"]
         /\ UNCHANGED <<now, serviceVars>>
    ELSE /\ validateSignedUrl(token, sig, parseInt(exp))
         /\ response' =
              IF lastValidate'.ret = Null
                THEN [status |-> 403, body |-> lastValidate'.reason, headers |-> {},
                      next |-> FALSE, url |-> Null, cause |-> lastValidate'.reason]
                ELSE [status |-> 0, body |-> "",
                      headers |-> {"Cache-Control", "Pragma", "Expires",
                                   "X-Content-Type-Options"},
                      next |-> TRUE, url |-> lastValidate'.ret, cause |-> ""]

\* the request handler returned by createProxyMiddleware
createProxyMiddleware(hasToken, token, hasExp, exp, hasSig, sig) ==
  IF ~hasToken \/ ~hasExp \/ ~hasSig
    THEN /\ response' = [status |-> 403, body |-> "Access denied", headers |-> {},
                         next |-> FALSE, url |-> Null, cause |-> "missing"]
         /\ UNCHANGED <<now, serviceVars>>
    ELSE /\ validateSignedUrl(token, sig, parseInt(exp))
         /\ response' =
              IF lastValidate'.ret = Null
                THEN [status |-> 403, body |-> "Access denied", headers |-> {},
                      next |-> FALSE, url |-> Null, cause |-> lastValidate'.reason]
                ELSE [status |-> 0, body |-> "",
                      headers |-> {"Cache-Control", "Pragma", "Expires",
                                   "X-Content-Type-Options"},
                      next |-> TRUE, url |-> lastValidate'.ret, cause |-> ""]

GrantIssue ==
  /\ \E p \in Paths : generateSignedUrl(p)
  /\ response' = NoResponse
  /\ UNCHANGED nonGrantVars
GrantValidate ==
  /\ \E t \in PresentableTokens, s \in PresentableSignatures, e \in PresentableExpiries :
      validateSignedUrl(t, s, e)
  /\ response' = NoResponse
  /\ UNCHANGED nonGrantVars
\* a request lacks some of its three parameters (what it sends for the others
\* is never looked at), or it carries all three
GrantProxy ==
  /\ \/ \E hasToken, hasExp, hasSig \in BOOLEAN :
          /\ ~(hasToken /\ hasExp /\ hasSig)
          /\ createProxyMiddleware(hasToken, UnknownToken, hasExp,
                                   [digits |-> FALSE, number |-> 0, rest |-> "x"],
                                   hasSig, ForgedSignature)
     \/ /\ lastValidate.seq < MaxRequests
        /\ \E t \in PresentableTokens, s \in PresentableSignatures,
              e \in PresentableExpStrings :
             createProxyMiddleware(TRUE, t, TRUE, e, TRUE, s)
  /\ UNCHANGED nonGrantVars
GrantRevoke ==
  /\ revokeAllTokens
  /\ response' = NoResponse
  /\ UNCHANGED nonGrantVars
GrantSweep ==
  /\ cleanupTick
  /\ response' = NoResponse
  /\ UNCHANGED nonGrantVars
GrantClock ==
  /\ AdvanceClock /\ UNCHANGED serviceVars
  /\ response' = NoResponse
  /\ UNCHANGED nonGrantVars

\* a service that is constructed and never used
GrantIdle ==
  /\ apsEnabled = TRUE
  /\ urlExpiration = 1
  /\ tokenCache = <<>>
  /\ accessLogs = <<>>
  /\ grants = {}
  /\ issueResult = [kind |-> "none", url |-> Null, token |-> UnknownToken]
  /\ lastValidate = NoValidate
  /\ pairLog = [t \in Tokens |-> [calls |-> 0, ok |-> 0]]
  /\ revoked = {}
  /\ unswept = <<>>
  /\ response = [status |-> 0, body |-> "", headers |-> {}, next |-> FALSE, url |-> Null,
                 cause |-> "none"]

\* ========================================================================
\* APIObfuscator.checkRateLimit
\* ========================================================================
windowSize == 60000
maxRequests == 100
\* `${clientId}:${url}`: one client id per session, so a key per requested URL
RateKeys == {"client:/api/a", "client:/api/b"}
NoKey == "none"
\* the key whose passing calls are logged when a behaviour observes one
TrackedKey == "client:/api/a"

NoFetch == [requests |-> 0, failed |-> 0, sent |-> 0, lastFailed |-> FALSE,
            rejected |-> FALSE]

RateInit ==
  /\ rateLimitStore = <<>>
  /\ lastCheck = [key |-> NoKey, threw |-> FALSE]
  /\ window = [k \in RateKeys |-> [start |-> 0, calls |-> 0]]
  /\ passLog = [key |-> NoKey, log |-> <<>>]
  /\ rotationTimer = TRUE
  /\ rateCalls = 0
  /\ fetchLog = NoFetch

\* the entry after the call and whether the call throws 'Rate limit exceeded'
rateLimitOutcome_CeilingOffByOne(key) ==
  IF key \notin DOMAIN rateLimitStore
    THEN <<[count |-> 1, firstRequest |-> now, lastRequest |-> now, blocked |-> FALSE], FALSE>>
  ELSE LET entry == rateLimitStore[key] IN
    IF now - entry.firstRequest > windowSize
      THEN <<[count |-> 1, firstRequest |-> now, lastRequest |-> now, blocked |-> FALSE], FALSE>>
    ELSE IF entry.count + 1 >= maxRequests
      THEN <<[entry EXCEPT !.count = @ + 1, !.lastRequest = now, !.blocked = TRUE], TRUE>>
      ELSE <<[entry EXCEPT !.count = @ + 1, !.lastRequest = now], FALSE>>

rateLimitOutcome(key) ==
  IF key \notin DOMAIN rateLimitStore
    THEN <<[count |-> 1, firstRequest |-> now, lastRequest |-> now, blocked |-> FALSE], FALSE>>
  ELSE LET entry == rateLimitStore[key] IN
    IF now - entry.firstRequest > windowSize
      THEN <<[count |-> 1, firstRequest |-> now, lastRequest |-> now, blocked |-> FALSE], FALSE>>
    ELSE IF entry.count + 1 > maxRequests
      THEN <<[entry EXCEPT !.count = @ + 1, !.lastRequest = now, !.blocked = TRUE], TRUE>>
      ELSE <<[entry EXCEPT !.count = @ + 1, !.lastRequest = now], FALSE>>

\* the log after a call that returned at time `now`
logPass(log) ==
  LET kept == SelectSeq(log, LAMBDA e : now - e.at < windowSize)
  IN IF kept # <<>> /\ kept[Len(kept)].at = now
       THEN [kept EXCEPT ![Len(kept)].n = @ + 1]
       ELSE Append(kept, [at |-> now, n |-> 1])

checkRateLimit(key) ==
  /\ rateCalls < MaxRateCalls
  /\ rateCalls' = rateCalls + 1
  /\ LET out == rateLimitOutcome(key)
     IN /\ rateLimitStore' = MapSet(rateLimitStore, key, out[1])
        /\ lastCheck' = [key |-> key, threw |-> out[2]]
  /\ window' = [window EXCEPT ![key] =
                  IF @.calls = 0 \/ now - @.start > windowSize
                    THEN [start |-> now, calls |-> 1]
                    ELSE [@ EXCEPT !.calls = @ + 1]]
  /\ passLog' = IF key = passLog.key /\ ~rateLimitOutcome(key)[2]
                  THEN [passLog EXCEPT !.log = logPass(@)] ELSE passLog
  /\ UNCHANGED <<now, rotationTimer>>

\* a limiter in use for 30.5 s: TrackedKey has had one call when the clock
\* started and 96 calls just now
RateInitBusy ==
  /\ now = 30500
  /\ rateLimitStore = MapSet(<<>>, TrackedKey,
                             [count |-> 97, firstRequest |-> 0, lastRequest |-> 30500,
                              blocked |-> FALSE])
  /\ lastCheck = [key |-> TrackedKey, threw |-> FALSE]
  /\ window = [k \in RateKeys |-> IF k = TrackedKey THEN [start |-> 0, calls |-> 97]
                                                      ELSE [start |-> 0, calls |-> 0]]
  /\ passLog = [key |-> TrackedKey, log |-> <<[at |-> 0, n |-> 1], [at |-> 30500, n |-> 96]>>]
  /\ rotationTimer = TRUE
  /\ rateCalls = 97
  /\ fetchLog = NoFetch

RateCheck ==
  /\ \E k \in RateKeys : checkRateLimit(k)
  /\ UNCHANGED fetchLog
  /\ UNCHANGED nonRateVars

\* what the network does with a request handed to the original fetch
NetworkOutcomes == {"response", "reject"}

\* an interceptor that hands the request on whatever the check says
interceptedFetch_ForwardsAnyway(threw, network) ==
  [calls |-> 1, rejected |-> threw \/ network = "reject"]

\* the function installed as window.fetch, with rateLimitEnabled: a throw of
\* checkRateLimit leaves the try block before originalFetch is reached, and the
\* catch block rethrows it; otherwise originalFetch is awaited once and its
\* rejection is rethrown the same way
interceptedFetch(threw, network) ==
  IF threw
    THEN [calls |-> 0, rejected |-> TRUE]
    ELSE [calls |-> 1, rejected |-> network = "reject"]

RateFetch ==
  /\ \E k \in RateKeys, network \in NetworkOutcomes :
       /\ checkRateLimit(k)
       /\ LET out == interceptedFetch(lastCheck'.threw, network)
          IN fetchLog' = [requests |-> fetchLog.requests + 1,
                          failed |-> fetchLog.failed + (IF lastCheck'.threw THEN 1 ELSE 0),
                          sent |-> fetchLog.sent + out.calls,
                          lastFailed |-> lastCheck'.threw,
                          rejected |-> out.rejected]
  /\ UNCHANGED nonRateVars
RateClock ==
  /\ \E d \in ClockSteps :
       /\ now + d <= MaxNow
       /\ now' = now + d
  /\ UNCHANGED rateVars
  /\ UNCHANGED nonRateVars

\* half a window and a little passes
RateHalfWindow ==
  /\ now + 30500 <= MaxNow
  /\ now' = now + 30500
  /\ UNCHANGED rateVars
  /\ UNCHANGED nonRateVars

\* config.rotationInterval * 60 * 1000
rotationInterval == 3600000
\* the rotation pass drops the rate limit entries last used more than this ago
staleAfter == 3600000

\* an idle hour: nothing calls the limiter until the next rotation is due
RateHour ==
  /\ now + rotationInterval <= MaxRateNow
  /\ now' = now + rotationInterval
  /\ UNCHANGED rateVars
  /\ UNCHANGED nonRateVars

\* the part of rotateMappings that touches the rate limit store
rotateMappings ==
  rateLimitStore' = [k \in {x \in DOMAIN rateLimitStore :
                              ~(now - rateLimitStore[x].lastRequest > staleAfter)}
                       |-> rateLimitStore[k]]

\* the interval callback, first due rotationInterval after construction
RateRotate ==
  /\ rotationTimer
  /\ now >= rotationInterval
  /\ rotateMappings
  /\ UNCHANGED <<now, lastCheck, window, passLog, rotationTimer, rateCalls, fetchLog>>
  /\ UNCHANGED nonRateVars

\* destroy(): window.fetch keeps the interceptor installed by the constructor,
\* so checkRateLimit goes on being called on the destroyed instance
RateDestroy ==
  /\ rotationTimer' = FALSE
  /\ rateLimitStore' = <<>>
  /\ UNCHANGED <<now, lastCheck, window, passLog, rateCalls, fetchLog>>
  /\ UNCHANGED nonRateVars

\* ========================================================================
\* DevToolsDetector
\* ========================================================================
\* confidences are kept in thousandths (0.8 is 800)
Methods == <<"timing", "resize", "console", "debugger">>
\* what the platform can show a probe in one tick
TimingDurations == {0, 45, 60}            \* ms spent reading the instrumented property
WindowGaps == {0, 330, 400}               \* max(outer - inner) of height and width, px
ConsoleOutcomes == {"logged", "error"}    \* the substituted console.log ran, or the call threw
DebuggerDurations == {0, 900}             \* ms spent in the debugger statement
NoDetection == [detected |-> FALSE, method |-> "none", confidence |-> 0, timestamp |-> 0]

Min(a, b) == IF a < b THEN a ELSE b

timingBasedDetection(duration) ==
  [detected |-> duration > 10, method |-> "timing",
   confidence |-> Min((duration * 1000) \div 50, 1000), timestamp |-> now]

resizeBasedDetection(gap) ==
  LET threshold == 160
      detected == gap > threshold
  IN [detected |-> detected, method |-> "resize",
      confidence |-> IF detected THEN Min(((gap - threshold) * 1000) \div 200, 1000) ELSE 0,
      timestamp |-> now]

consoleBasedDetection(outcome) ==
  IF outcome = "logged"
    THEN [detected |-> TRUE, method |-> "console", confidence |-> 700, timestamp |-> now]
    ELSE [detected |-> TRUE, method |-> "console", confidence |-> 600, timestamp |-> now]

debuggerBasedDetection(duration) ==
  LET detected == duration > 100
  IN [detected |-> detected, method |-> "debugger",
      confidence |-> IF detected THEN Min((duration * 1000) \div 1000, 1000) ELSE 0,
      timestamp |-> now]

detectByMethod(method, env) ==
  CASE method = "timing" -> timingBasedDetection(env.timing)
    [] method = "resize" -> resizeBasedDetection(env.gap)
    [] method = "console" -> consoleBasedDetection(env.console)
    [] method = "debugger" -> debuggerBasedDetection(env.debugger)

\* results.filter(...)
RECURSIVE SelectSeqBy(_, _)
SelectSeqBy(results, threshold) ==
  IF results = <<>> THEN <<>>
  ELSE LET r == Head(results)
           rest == SelectSeqBy(Tail(results), threshold)
       IN IF r.detected /\ r.confidence >= threshold THEN <<r>> \o rest ELSE rest

\* highConfidenceDetections.reduce((best, current) =>
\*   current.confidence > best.confidence ? current : best)
RECURSIVE ReduceBest(_, _)
ReduceBest(best, rest) ==
  IF rest = <<>> THEN best
  ELSE ReduceBest(IF Head(rest).confidence > best.confidence THEN Head(rest) ELSE best,
                  Tail(rest))

\* the invocations of config.onDetection made by one runDetection
handlerInvocations_PerProbe(highConfidenceDetections) ==
  [i \in 1..Len(highConfidenceDetections) |->
     <<highConfidenceDetections[i].method, highConfidenceDetections[i].confidence>>]

handlerInvocations(highConfidenceDetections) ==
  IF Len(highConfidenceDetections) > 0
    THEN LET bestDetection == ReduceBest(Head(highConfidenceDetections),
                                         Tail(highConfidenceDetections))
         IN << <<bestDetection.method, bestDetection.confidence>> >>
    ELSE <<>>

LastN(q, n) == IF Len(q) > n THEN SubSeq(q, Len(q) - n + 1, Len(q)) ELSE q

\* runDetection with handleDetection; blockAccess throws out of runDetection
\* before the history is stored
runDetection(env) ==
  /\ lastTick.n < MaxTicks
  /\ LET enabled == SelectSeq(Methods, LAMBDA m : m \in dtConfig.detectionMethods)
         results == [i \in 1..Len(enabled) |-> detectByMethod(enabled[i], env)]
         highConfidenceDetections == SelectSeqBy(results, dtConfig.confidenceThreshold)
         calls == handlerInvocations(highConfidenceDetections)
         detectedNow == Len(highConfidenceDetections) > 0
         threw == detectedNow /\ dtConfig.blockOnDetection
     IN /\ lastDetection' = IF detectedNow
                              THEN ReduceBest(Head(highConfidenceDetections),
                                              Tail(highConfidenceDetections))
                              ELSE lastDetection
        /\ warningShown' = (warningShown \/ detectedNow)
        /\ detectionHistory' = IF threw THEN detectionHistory
                               ELSE LastN(detectionHistory \o results, 10)
        /\ lastTick' = [n |-> lastTick.n + 1, results |-> results,
                        calls |-> calls, threw |-> threw]
  /\ UNCHANGED <<now, dtConfig>>

ProbeEnvs ==
  [timing : TimingDurations, gap : WindowGaps,
   console : ConsoleOutcomes, debugger : DebuggerDurations]

\* start(): sets the interval and runs one detection at once
DevToolsStart ==
  /\ dtConfig.enabled /\ ~isDetecting
  /\ isDetecting' = TRUE
  /\ detectionInterval' = TRUE
  /\ \E env \in ProbeEnvs : runDetection(env)
  /\ UNCHANGED nonDevToolsVars

\* the interval callback
DevToolsTick ==
  /\ detectionInterval
  /\ \E env \in ProbeEnvs : runDetection(env)
  /\ UNCHANGED <<isDetecting, detectionInterval>>
  /\ UNCHANGED nonDevToolsVars

DevToolsStop ==
  /\ isDetecting
  /\ isDetecting' = FALSE
  /\ detectionInterval' = FALSE
  /\ UNCHANGED <<now, dtConfig, lastDetection, detectionHistory, warningShown, lastTick>>
  /\ UNCHANGED nonDevToolsVars

DevToolsConfigs ==
  [enabled : {TRUE},
   detectionMethods : {{"timing", "resize", "console", "debugger"},
                       {"timing", "resize", "console"}},
   confidenceThreshold : {800, 700},
   blockOnDetection : BOOLEAN]

DevToolsInit ==
  /\ dtConfig \in DevToolsConfigs
  /\ isDetecting = FALSE
  /\ detectionInterval = FALSE
  /\ lastDetection = NoDetection
  /\ detectionHistory = <<>>
  /\ warningShown = FALSE
  /\ lastTick = [n |-> 0, results |-> <<>>, calls |-> <<>>, threw |-> FALSE]

DevToolsIdle ==
  /\ dtConfig = [enabled |-> TRUE,
                 detectionMethods |-> {"timing", "resize", "console", "debugger"},
                 confidenceThreshold |-> 800, blockOnDetection |-> FALSE]
  /\ isDetecting = FALSE
  /\ detectionInterval = FALSE
  /\ lastDetection = NoDetection
  /\ detectionHistory = <<>>
  /\ warningShown = FALSE
  /\ lastTick = [n |-> 0, results |-> <<>>, calls |-> <<>>, threw |-> FALSE]

\* ========================================================================
\* IntegrityVerifier
\* ========================================================================
ElementIds == <<"script_0", "inline_script_0">>   \* in document order
Contents == {"original", "modified"}
MaxFailuresChoices == {2, 3}

\* SHA256(content + checksumSalt + identifier), the salt fixed at construction
generateHash(content, identifier) == <<"sha", content, identifier>>

\* getCodeElements: the elements now in the page, in document order
getCodeElements ==
  LET present == SelectSeq(ElementIds, LAMBDA id : id \in DOMAIN dom)
  IN [i \in 1..Len(present) |-> [id |-> present[i], content |-> dom[present[i]]]]

\* severity of the TamperEvent built by handleIntegrityFailure
tamperSeverity(failureCount) ==
  IF failureCount >= ivConfig.maxFailures THEN "critical" ELSE "medium"

\* verifyElement with handleIntegrityFailure: the new baseline, check records
\* and emitted events, and the value it resolves to
verifyElement_Readopts(element, hashes, chk, emt) ==
  LET currentHash == generateHash(element.content, element.id) IN
  [hashes |-> MapSet(hashes, element.id, currentHash), checks |-> chk,
   emitted |-> emt, isValid |-> TRUE]

verifyElement_KeepsCount(element, hashes, chk, emt) ==
  LET currentHash == generateHash(element.content, element.id) IN
  IF element.id \notin DOMAIN hashes
    THEN [hashes |-> MapSet(hashes, element.id, currentHash), checks |-> chk,
          emitted |-> emt, isValid |-> TRUE]
    ELSE
      LET expectedHash == hashes[element.id]
          isValid == currentHash = expectedHash
          before == IF element.id \in DOMAIN chk THEN chk[element.id].failureCount ELSE 0
          failureCount == IF isValid THEN before ELSE before + 1
          check == [hash |-> currentHash, timestamp |-> now, verified |-> isValid,
                    failureCount |-> failureCount]
          severity == tamperSeverity(failureCount)
      IN [hashes |-> hashes,
          checks |-> MapSet(chk, element.id, check),
          emitted |-> IF isValid
                        THEN [emt EXCEPT ![element.id] = [medium |-> 0, critical |-> 0]]
                        ELSE [emt EXCEPT ![element.id][severity] = @ + 1],
          isValid |-> isValid]

verifyElement(element, hashes, chk, emt) ==
  LET currentHash == generateHash(element.content, element.id) IN
  IF element.id \notin DOMAIN hashes
    THEN [hashes |-> MapSet(hashes, element.id, currentHash), checks |-> chk,
          emitted |-> emt, isValid |-> TRUE]
    ELSE
      LET expectedHash == hashes[element.id]
          isValid == currentHash = expectedHash
          failureCount == IF isValid THEN 0
                          ELSE (IF element.id \in DOMAIN chk
                                  THEN chk[element.id].failureCount ELSE 0) + 1
          check == [hash |-> currentHash, timestamp |-> now, verified |-> isValid,
                    failureCount |-> failureCount]
          severity == tamperSeverity(failureCount)
      IN [hashes |-> hashes,
          checks |-> MapSet(chk, element.id, check),
          emitted |-> IF isValid
                        THEN [emt EXCEPT ![element.id] = [medium |-> 0, critical |-> 0]]
                        ELSE [emt EXCEPT ![element.id][severity] = @ + 1],
          isValid |-> isValid]

\* config.onTamperDetected is called only for a mismatch, outside any try
\* block of verifyElement, and may throw: whether the promise of verifyElement
\* is rejected
HandlerOutcomes(v) == IF v.isValid THEN {FALSE} ELSE BOOLEAN

NoEvents == [id \in {ElementIds[i] : i \in 1..Len(ElementIds)} |-> [medium |-> 0, critical |-> 0]]

\* the synchronous part of performIntegrityCheck, up to its first await
performIntegrityCheck ==
  IF isVerifying
    THEN /\ lastResult' = [value |-> TRUE, compared |-> FALSE, skipped |-> <<>>]
         /\ UNCHANGED <<buildTimeHashes, checks, isVerifying, passes, emitted>>
    ELSE LET codeElements == getCodeElements IN
      IF codeElements = <<>>
        THEN /\ lastResult' = [value |-> TRUE, compared |-> TRUE, skipped |-> <<>>]
             /\ UNCHANGED <<buildTimeHashes, checks, isVerifying, passes, emitted>>
        ELSE LET v == verifyElement(Head(codeElements), buildTimeHashes, checks, emitted)
             IN /\ Len(passes) < MaxPasses
                /\ \A id \in DOMAIN checks : checks[id].failureCount < MaxFailureCount
                /\ isVerifying' = TRUE
                /\ buildTimeHashes' = v.hashes
                /\ checks' = v.checks
                /\ emitted' = v.emitted
                /\ \E thrown \in HandlerOutcomes(v) :
                     passes' = Append(passes, [todo |-> Tail(codeElements),
                                               allValid |-> v.isValid,
                                               thrown |-> thrown])
                /\ UNCHANGED lastResult

RemoveAt(q, i) == SubSeq(q, 1, i - 1) \o SubSeq(q, i + 1, Len(q))

\* a suspended performIntegrityCheck resumes: the next element, or the end
IntegrityResume ==
  /\ \E i \in 1..Len(passes) :
      LET p == passes[i] IN
      /\ IF p.thrown
           THEN \* the catch block returns false, the finally block clears the flag
                /\ isVerifying' = FALSE
                /\ passes' = RemoveAt(passes, i)
                /\ lastResult' = [value |-> FALSE, compared |-> TRUE, skipped |-> p.todo]
                /\ UNCHANGED <<buildTimeHashes, checks, emitted>>
           ELSE IF p.todo = <<>>
           THEN /\ isVerifying' = FALSE
                /\ passes' = RemoveAt(passes, i)
                /\ lastResult' = [value |-> p.allValid, compared |-> TRUE,
                                  skipped |-> <<>>]
                /\ UNCHANGED <<buildTimeHashes, checks, emitted>>
           ELSE LET v == verifyElement(Head(p.todo), buildTimeHashes, checks, emitted)
                IN /\ buildTimeHashes' = v.hashes
                   /\ checks' = v.checks
                   /\ emitted' = v.emitted
                   /\ \E thrown \in HandlerOutcomes(v) :
                        passes' = [passes EXCEPT ![i] =
                                     [todo |-> Tail(p.todo),
                                      allValid |-> p.allValid /\ v.isValid,
                                      thrown |-> thrown]]
                   /\ UNCHANGED <<isVerifying, lastResult>>
      /\ UNCHANGED <<now, dom, ivConfig, intervalId>>
  /\ UNCHANGED nonIntegrityVars

\* the interval callback; a timer callback runs only when no continuation is
\* pending
IntegrityTick ==
  /\ intervalId
  /\ passes = <<>>
  /\ ~isVerifying
  /\ performIntegrityCheck
  /\ UNCHANGED <<now, dom, ivConfig, intervalId>>
  /\ UNCHANGED nonIntegrityVars

\* verify()
IntegrityVerify ==
  /\ performIntegrityCheck
  /\ UNCHANGED <<now, dom, ivConfig, intervalId>>
  /\ UNCHANGED nonIntegrityVars

IntegrityStop ==
  /\ intervalId \/ isVerifying
  /\ intervalId' = FALSE
  /\ isVerifying' = FALSE
  /\ UNCHANGED <<now, dom, ivConfig, buildTimeHashes, checks, passes, lastResult, emitted>>
  /\ UNCHANGED nonIntegrityVars

\* restart(): stop(), then startPeriodicVerification when enabled
IntegrityRestart ==
  /\ intervalId' = ivConfig.enabled
  /\ isVerifying' = FALSE
  /\ intervalId' # intervalId \/ isVerifying
  /\ UNCHANGED <<now, dom, ivConfig, buildTimeHashes, checks, passes, lastResult, emitted>>
  /\ UNCHANGED nonIntegrityVars

\* updateConfig({ enabled }): starts the timer, or stop()s
IntegrityUpdateConfig ==
  /\ \E enabled \in BOOLEAN :
       /\ enabled # ivConfig.enabled
       /\ ivConfig' = [ivConfig EXCEPT !.enabled = enabled]
       /\ IF enabled /\ ~intervalId
            THEN intervalId' = TRUE /\ UNCHANGED isVerifying
            ELSE IF ~enabled /\ intervalId
                   THEN intervalId' = FALSE /\ isVerifying' = FALSE
                   ELSE UNCHANGED <<intervalId, isVerifying>>
  /\ UNCHANGED <<now, dom, buildTimeHashes, checks, passes, lastResult, emitted>>
  /\ UNCHANGED nonIntegrityVars

\* another script changes, adds or rewrites a monitored element
DomChange ==
  /\ \E i \in 1..Len(ElementIds), c \in Contents :
      /\ IF ElementIds[i] \in DOMAIN dom THEN dom[ElementIds[i]] # c ELSE TRUE
      /\ dom' = MapSet(dom, ElementIds[i], c)
      /\ UNCHANGED <<now, ivConfig, buildTimeHashes, checks, isVerifying, intervalId,
                     passes, lastResult, emitted>>
  /\ UNCHANGED nonIntegrityVars

\* after the constructor and its initial check: the elements then in the page
\* are the baseline and have one verified check each
IntegrityInitWith(present, maxFailures) ==
  /\ dom = [id \in present |-> "original"]
  /\ ivConfig = [enabled |-> TRUE, maxFailures |-> maxFailures]
  /\ buildTimeHashes = [id \in present |-> generateHash("original", id)]
  /\ checks = [id \in present |-> [hash |-> generateHash("original", id), timestamp |-> 0,
                                    verified |-> TRUE, failureCount |-> 0]]
  /\ isVerifying = FALSE
  /\ intervalId = TRUE
  /\ passes = <<>>
  /\ lastResult = [value |-> TRUE, compared |-> TRUE, skipped |-> <<>>]
  /\ emitted = NoEvents

IntegrityInit ==
  \E present \in {{ElementIds[1]}, {ElementIds[1], ElementIds[2]}},
     m \in MaxFailuresChoices : IntegrityInitWith(present, m)

IntegrityIdle == IntegrityInitWith({ElementIds[1]}, 3)

\* ========================================================================
\* SecurityEventLogger (src/unnamed/part_005)
\* ========================================================================
Severities == {"low", "critical"}
BatchSizes == {2, 3}
MaxRetriesChoices == {3, 4}
MaxStoredBatches == 100

\* the logger's mutable collections as one record, so that the steps of one
\* synchronous run can be composed
Here ==
  [q |-> eventQueue, fly |-> inFlight, store |-> localStore, id |-> nextId, made |-> created]

Commit(p) ==
  /\ eventQueue' = p.q
  /\ inFlight' = p.fly
  /\ localStore' = p.store
  /\ nextId' = p.id
  /\ created' = p.made

storeLocally(stored, batch) ==
  LET existingBatches == Append(stored, batch)
      n == Len(existingBatches)
  IN IF n > MaxStoredBatches
       THEN SubSeq(existingBatches, n - MaxStoredBatches + 1, n)
       ELSE existingBatches

\* sendBatch up to its first await: without an endpoint the batch is stored and
\* the promise is already settled, otherwise the request is on the wire
sendBatch(p, batch, kind) ==
  IF ~elConfig.endpoint
    THEN [p EXCEPT !.store = storeLocally(@, batch),
                   !.fly = Append(@, [kind |-> kind, batch |-> batch, phase |-> "settled"])]
    ELSE [p EXCEPT !.fly = Append(@, [kind |-> kind,
                                      batch |-> [batch EXCEPT !.attempts = @ + 1],
                                      phase |-> "fetching"])]

\* flush() up to `await this.sendBatch(batch)`
flush_KeepsQueue(p, online) ==
  IF p.q = <<>> \/ ~online
    THEN p
    ELSE LET batch == [batchId |-> Len(p.made) + 1, events |-> p.q,
                       attempts |-> 0, failures |-> 0]
         IN sendBatch([p EXCEPT !.made = Append(@, batch)], batch, "flush")

flush(p, online) ==
  IF p.q = <<>> \/ ~online
    THEN p
    ELSE LET batch == [batchId |-> Len(p.made) + 1, events |-> p.q,
                       attempts |-> 0, failures |-> 0]
         IN sendBatch([p EXCEPT !.q = <<>>, !.made = Append(@, batch)], batch, "flush")

\* logEvent on an enabled logger, up to its console.log
logEventBody_SizeTriggerOnly(p, severity, source) ==
  LET event == [id |-> p.id, severity |-> severity, source |-> source, retryCount |-> 0]
      pushed == [p EXCEPT !.q = Append(@, event), !.id = @ + 1]
  IN IF Len(pushed.q) >= elConfig.batchSize THEN flush(pushed, isOnline) ELSE pushed

logEventBody(p, severity, source) ==
  LET event == [id |-> p.id, severity |-> severity, source |-> source, retryCount |-> 0]
      pushed == [p EXCEPT !.q = Append(@, event), !.id = @ + 1]
      urgent == IF severity = "critical" THEN flush(pushed, isOnline) ELSE pushed
  IN IF Len(urgent.q) >= elConfig.batchSize THEN flush(urgent, isOnline) ELSE urgent

\* A call of console.log/warn/error while the logger is enabled: the wrapper
\* installed by setupConsoleMonitoring calls logEvent, whose own console.log
\* calls the wrapper again, until the call stack is exhausted after `depth`
\* events and the RangeError unwinds every frame.
RECURSIVE consoleOverflow(_, _, _)
consoleOverflow(p, severity, depth) ==
  IF depth = 0
    THEN p
    ELSE consoleOverflow(logEventBody(p, severity, "ConsoleMonitor"), "low", depth - 1)

\* the wrapped console method: it returns only while the logger is disabled
consoleMethod(p, severity, depth) ==
  IF elConfig.enabled THEN consoleOverflow(p, severity, depth) ELSE p

Depths == 1..MaxNest

Fits(p) ==
  /\ p.id <= MaxEvents + 1
  /\ Len(p.made) <= MaxBatches
  /\ Len(p.fly) <= MaxInFlight
  /\ Len(p.store) <= MaxBatches

\* batches whose transmission has ended, one way or the other
Finished == Len(delivered) + Cardinality(dropped)

\* batches waiting in the retry queue after a failed transmission
Requeued(queue) == Cardinality({k \in 1..Len(queue) : queue[k].failures > 0})

logEvent(severity, depth) ==
  IF ~elConfig.enabled
    THEN /\ logCalls' = [logCalls EXCEPT !.last = "empty"]
         /\ UNCHANGED <<eventQueue, inFlight, localStore, nextId, created>>
    ELSE LET p == consoleOverflow(logEventBody(Here, severity, "producer"), "low", depth)
         IN /\ Fits(p)
            /\ Commit(p)
            /\ logCalls' = [accepted |-> logCalls.accepted + 1, last |-> "RangeError"]

PipelineLogEvent ==
  /\ \E severity \in Severities, depth \in Depths : logEvent(severity, depth)
  /\ UNCHANGED <<sessionId, elConfig, retryQueue, isOnline, flushTimer, retryTimers,
                 delivered, dropped, quiet>>
  /\ UNCHANGED nonPipelineVars

\* a flush() not made by logEvent: the interval callback of startPeriodicFlush
PipelineFlushTick ==
  /\ flushTimer
  /\ Fits(flush(Here, isOnline))
  /\ Commit(flush(Here, isOnline))
  /\ quiet' = FALSE
  /\ UNCHANGED <<sessionId, elConfig, retryQueue, isOnline, flushTimer, retryTimers,
                 delivered, dropped, logCalls>>
  /\ UNCHANGED nonPipelineVars

RemoveFlight(fly, i) == SubSeq(fly, 1, i - 1) \o SubSeq(fly, i + 1, Len(fly))

Outcomes(a) == IF a.phase = "settled" THEN {"ok"} ELSE {"ok", "error"}

\* flush() after its await: the rest of the try block, or the catch block
flushSettle(i, outcome, depth) ==
  LET a == inFlight[i]
      rest == [Here EXCEPT !.fly = RemoveFlight(@, i)]
      failed == [a.batch EXCEPT !.failures = @ + 1]
  IN IF outcome = "ok"
       THEN \* console.log throws into the catch, whose console.error throws again
            LET p == consoleMethod(consoleMethod(rest, "low", depth), "medium", depth)
            IN /\ Fits(p)
               /\ Commit(p)
               /\ delivered' = IF a.phase = "fetching" THEN Append(delivered, a.batch)
                                                        ELSE delivered
               /\ UNCHANGED <<retryQueue, retryTimers, dropped>>
       ELSE IF elConfig.enabled
              THEN \* console.error throws before the batch reaches the retry queue
                   LET p == consoleOverflow(rest, "medium", depth)
                   IN /\ Fits(p)
                      /\ Commit(p)
                      /\ dropped' = dropped \cup {[batch |-> failed, why |-> "console"]}
                      /\ UNCHANGED <<retryQueue, retryTimers, delivered>>
              ELSE /\ Commit(rest)
                   /\ retryQueue' = Append(retryQueue, failed)
                   /\ retryTimers' = retryTimers + 1
                   /\ UNCHANGED <<delivered, dropped>>

PipelineSettle ==
  /\ Finished < MaxBatches
  /\ \E i \in 1..Len(inFlight) :
       /\ inFlight[i].kind = "flush"
       /\ \E outcome \in Outcomes(inFlight[i]), depth \in Depths : flushSettle(i, outcome, depth)
  /\ Requeued(retryQueue') <= MaxBatches
  /\ UNCHANGED <<sessionId, elConfig, isOnline, flushTimer, logCalls, quiet>>
  /\ UNCHANGED nonPipelineVars

\* the setTimeout callback of scheduleRetry, up to `await this.sendBatch(batch)`
retryCallback ==
  IF retryQueue = <<>>
    THEN UNCHANGED <<eventQueue, inFlight, localStore, nextId, created, retryQueue>>
    ELSE LET p == sendBatch(Here, Head(retryQueue), "retry")
         IN /\ Fits(p)
            /\ Commit(p)
            /\ retryQueue' = Tail(retryQueue)

PipelineRetryTimer ==
  /\ retryTimers > 0
  /\ retryTimers' = retryTimers - 1
  /\ retryCallback
  /\ quiet' = FALSE
  /\ UNCHANGED <<sessionId, elConfig, isOnline, flushTimer, delivered, dropped, logCalls>>
  /\ UNCHANGED nonPipelineVars

markRetried(events) == [k \in 1..Len(events) |-> [events[k] EXCEPT !.retryCount = 1]]

\* "Continue processing retry queue"
continueRetry(queue) == IF Len(queue) > 0 THEN retryTimers + 1 ELSE retryTimers

\* the callback of scheduleRetry after its await
retrySettle(i, outcome, depth) ==
  LET a == inFlight[i]
      rest == [Here EXCEPT !.fly = RemoveFlight(@, i)]
      failed == [a.batch EXCEPT !.failures = @ + 1]
  IN IF outcome = "ok"
       THEN LET p == consoleMethod(consoleMethod(rest, "low", depth), "medium", depth)
            IN /\ Fits(p)
               /\ Commit(p)
               /\ delivered' = IF a.phase = "fetching" THEN Append(delivered, a.batch)
                                                        ELSE delivered
               /\ retryTimers' = IF elConfig.enabled THEN retryTimers
                                                      ELSE continueRetry(retryQueue)
               /\ UNCHANGED <<retryQueue, dropped>>
       ELSE IF elConfig.enabled
              THEN LET p == consoleOverflow(rest, "medium", depth)
                   IN /\ Fits(p)
                      /\ Commit(p)
                      /\ dropped' = dropped \cup {[batch |-> failed, why |-> "console"]}
                      /\ UNCHANGED <<retryQueue, retryTimers, delivered>>
              ELSE /\ Commit(rest)
                   /\ IF failed.events # <<>> /\ failed.events[1].retryCount = 0
                        THEN /\ retryQueue' =
                                  Append(retryQueue,
                                         [failed EXCEPT !.events = markRetried(@)])
                             /\ UNCHANGED dropped
                        ELSE /\ dropped' =
                                  dropped \cup {[batch |-> failed, why |-> "exhausted"]}
                             /\ UNCHANGED retryQueue
                   /\ retryTimers' = continueRetry(retryQueue')
                   /\ UNCHANGED delivered

PipelineRetrySettle ==
  /\ Finished < MaxBatches
  /\ \E i \in 1..Len(inFlight) :
       /\ inFlight[i].kind = "retry"
       /\ \E outcome \in Outcomes(inFlight[i]), depth \in Depths : retrySettle(i, outcome, depth)
  /\ Requeued(retryQueue') <= MaxBatches
  /\ quiet' = FALSE
  /\ UNCHANGED <<sessionId, elConfig, isOnline, flushTimer, logCalls>>
  /\ UNCHANGED nonPipelineVars

\* window 'online': isOnline = true; flush()
PipelineOnline ==
  /\ ~isOnline
  /\ isOnline' = TRUE
  /\ Fits(flush(Here, TRUE))
  /\ Commit(flush(Here, TRUE))
  /\ quiet' = FALSE
  /\ UNCHANGED <<sessionId, elConfig, retryQueue, flushTimer, retryTimers, delivered, dropped, logCalls>>
  /\ UNCHANGED nonPipelineVars

\* window 'offline'
PipelineOffline ==
  /\ isOnline
  /\ isOnline' = FALSE
  /\ quiet' = FALSE
  /\ UNCHANGED <<sessionId, elConfig, eventQueue, retryQueue, flushTimer, retryTimers, inFlight,
                 localStore, nextId, created, delivered, dropped, logCalls>>
  /\ UNCHANGED nonPipelineVars

\* updateConfig({ enabled })
PipelineUpdateConfig ==
  /\ \E enabled \in BOOLEAN :
       /\ enabled # elConfig.enabled
       /\ elConfig' = [elConfig EXCEPT !.enabled = enabled]
  /\ quiet' = FALSE
  /\ UNCHANGED <<sessionId, eventQueue, retryQueue, isOnline, flushTimer, retryTimers,
                 inFlight, localStore, nextId, created, delivered, dropped, logCalls>>
  /\ UNCHANGED nonPipelineVars

Dropping(batches, why) == {[batch |-> batches[k], why |-> why] : k \in 1..Len(batches)}

\* flushBeforeUnload(): sendBeacon hands the batch to the browser, which
\* delivers it or not
flushBeforeUnload(p, beacon) ==
  IF p.q = <<>>
    THEN [p |-> p, sent |-> <<>>, lost |-> <<>>]
    ELSE LET batch == [batchId |-> Len(p.made) + 1, events |-> p.q,
                       attempts |-> 0, failures |-> 0]
             q == [p EXCEPT !.q = <<>>, !.made = Append(@, batch)]
         IN IF elConfig.endpoint
              THEN [p |-> q,
                    sent |-> IF beacon THEN <<[batch EXCEPT !.attempts = 1]>> ELSE <<>>,
                    lost |-> IF beacon THEN <<>> ELSE <<batch>>]
              ELSE [p |-> [q EXCEPT !.store = storeLocally(@, batch)],
                    sent |-> <<>>, lost |-> <<>>]

Fetching(fly) ==
  LET a == SelectSeq(fly, LAMBDA x : x.phase = "fetching")
  IN [k \in 1..Len(a) |-> a[k].batch]

\* the page is unloaded and a logger is constructed in the next session:
\* beforeunload runs flushBeforeUnload, pending requests and timeouts die with
\* the page, and the constructor runs startPeriodicFlush and loadPendingEvents
PipelineReload ==
  /\ sessionId < MaxSessions
  /\ sessionId' = sessionId + 1
  /\ \E beacon \in BOOLEAN :
       LET u == flushBeforeUnload(Here, beacon)
       IN /\ Len(u.p.made) <= MaxBatches
          /\ eventQueue' = <<>>
          /\ inFlight' = <<>>
          /\ created' = u.p.made
          /\ nextId' = nextId
          /\ delivered' = delivered \o u.sent
          /\ dropped' = dropped \cup Dropping(u.lost \o retryQueue \o Fetching(inFlight),
                                             "unload")
          \* loadPendingEvents
          /\ retryQueue' = u.p.store
          /\ localStore' = <<>>
          /\ retryTimers' = IF Len(u.p.store) > 0 THEN 1 ELSE 0
  /\ elConfig' = [elConfig EXCEPT !.enabled = TRUE]
  /\ isOnline' = TRUE
  /\ flushTimer' = TRUE
  /\ logCalls' = [accepted |-> 0, last |-> "none"]
  /\ quiet' = FALSE
  /\ UNCHANGED nonPipelineVars

\* destroy(): the flush it starts is not awaited, so both queues are emptied
\* while the request of the final flush is still pending; the timeouts set by
\* scheduleRetry are not cleared
PipelineDestroy ==
  /\ flushTimer
  /\ flushTimer' = FALSE
  /\ LET p == flush(Here, isOnline)
     IN /\ Fits(p)
        /\ Commit([p EXCEPT !.q = <<>>])
  /\ retryQueue' = <<>>
  /\ dropped' = dropped \cup Dropping(retryQueue, "destroy")
  /\ quiet' = FALSE
  /\ UNCHANGED <<sessionId, elConfig, isOnline, retryTimers, delivered, logCalls>>
  /\ UNCHANGED nonPipelineVars

\* the pending batches an earlier session has left in localStorage: one
\* event each, oldest first
StoredBefore(n) ==
  [k \in 1..n |->
     [batchId |-> 0 - k,
      events |-> <<[id |-> 0 - k, severity |-> "low", source |-> "producer",
                    retryCount |-> 0]>>,
      attempts |-> 0, failures |-> 0]]

\* after the constructor, loadPendingEvents having moved `pending` from
\* localStorage to the retry queue and scheduled a retry for it
LoggerConstructed(enabled, endpoint, batchSize, maxRetries, pending) ==
  /\ sessionId = 1
  /\ elConfig = [enabled |-> enabled, endpoint |-> endpoint, batchSize |-> batchSize,
                 maxRetries |-> maxRetries]
  /\ eventQueue = <<>>
  /\ retryQueue = pending
  /\ isOnline = TRUE
  /\ flushTimer = TRUE
  /\ retryTimers = IF Len(pending) > 0 THEN 1 ELSE 0
  /\ inFlight = <<>>
  /\ localStore = <<>>
  /\ nextId = 1
  /\ created = <<>>
  /\ delivered = <<>>
  /\ dropped = {}
  /\ logCalls = [accepted |-> 0, last |-> "none"]
  /\ quiet = TRUE

PipelineConstructed(endpoint, batchSize, maxRetries, pending) ==
  LoggerConstructed(TRUE, endpoint, batchSize, maxRetries, pending)

PipelineInitWith(endpoint, batchSize, maxRetries) ==
  PipelineConstructed(endpoint, batchSize, maxRetries, <<>>)

PipelineInit ==
  \E endpoint \in BOOLEAN, batchSize \in BatchSizes, maxRetries \in MaxRetriesChoices :
    PipelineInitWith(endpoint, batchSize, maxRetries)

\* a logger constructed while localStorage is full
PipelineInitBacklog ==
  \E endpoint \in BOOLEAN :
    PipelineConstructed(endpoint, 2, 3, StoredBefore(MaxStoredBatches))

PipelineIdle == PipelineInitWith(FALSE, 10, 3)

\* a logger configured to retry a failed batch once
PipelineInitOneRetry == \E batchSize \in BatchSizes : PipelineInitWith(TRUE, batchSize, 1)

\* ========================================================================
\* SecurityMonitor
\* ========================================================================
\* The monitor's own SecurityEventLogger is kept as its config.enabled flag:
\* while it is set, every logEvent call ends in the RangeError of the console
\* recursion, so a handler is left at its first statement; a monitor whose
\* constructor returned was built with eventLogging.enabled = false.
MaxAlerts == 3
MaxMonitorNow == 300000
MonitorSteps == {50000, 250000}
DayStep == 86400001
MaxAlertsNow == 86700001
MonitorConfigs ==
  {[devToolsDetections |-> 2, assetAccessDenials |-> 3, blockOnCritical |-> FALSE],
   [devToolsDetections |-> 3, assetAccessDenials |-> 2, blockOnCritical |-> TRUE]}

\* confidences that pass the detector's threshold, in thousandths
Confidences == {750, 900}

recentCount_NoWindow(list, type, span, t) ==
  Cardinality({k \in 1..Len(list) : list[k].type = type})

\* this.alerts.filter(a => a.type === type && Date.now() - a.timestamp < span).length
recentCount(list, type, span, t) ==
  Cardinality({k \in 1..Len(list) : list[k].type = type /\ t - list[k].timestamp < span})

\* the threat level of updateMetrics
threatLevel(list) ==
  LET criticalAlerts == Cardinality({k \in 1..Len(list) : list[k].severity = "critical"})
      highAlerts == Cardinality({k \in 1..Len(list) : list[k].severity = "high"})
  IN IF criticalAlerts > 0 THEN "critical"
     ELSE IF highAlerts > 2 THEN "high"
     ELSE IF Len(list) > 10 THEN "medium"
     ELSE "low"

updateMetrics == [threatLevel |-> threatLevel(alerts)]

SecurityAlert(type, severity) ==
  [id |-> Len(issued) + 1, type |-> type, severity |-> severity, timestamp |-> now,
   acknowledged |-> FALSE]

\* escalateAlert: the auto-response
escalateAlert(alert) ==
  IF smConfig.autoResponse /\ alert.severity = "critical" /\ smConfig.blockOnCritical
    THEN blocked' = TRUE /\ UNCHANGED warnings
    ELSE IF smConfig.autoResponse /\ alert.severity = "medium" /\ smConfig.warningOnMedium
           THEN warnings' = warnings + 1 /\ UNCHANGED blocked
           ELSE UNCHANGED <<blocked, warnings>>

\* this.alerts.push(alert), and escalateAlert where the handler calls it
raiseAlert(alert, escalate) ==
  /\ alerts' = Append(alerts, alert)
  /\ issued' = Append(issued, [alert |-> alert, escalated |-> escalate])
  /\ IF escalate THEN escalateAlert(alert) ELSE UNCHANGED <<blocked, warnings>>

handleDevToolsDetection(confidence) ==
  IF smConfig.eventLogging
    THEN UNCHANGED <<alerts, issued, blocked, warnings>>
    ELSE LET alert == SecurityAlert("devtools_detected",
                                    IF confidence > 800 THEN "high" ELSE "medium")
             recentDetections == recentCount(Append(alerts, alert), "devtools_detected",
                                             60000, now)
         IN raiseAlert(alert, recentDetections >= smConfig.devToolsDetections)

handleIntegrityViolation ==
  IF smConfig.eventLogging
    THEN UNCHANGED <<alerts, issued, blocked, warnings>>
    ELSE raiseAlert(SecurityAlert("integrity_violation", "critical"), TRUE)

handleAssetAccessDenial ==
  IF smConfig.eventLogging
    THEN UNCHANGED <<alerts, issued, blocked, warnings>>
    ELSE LET alert == SecurityAlert("asset_access_denied", "medium")
             recentDenials == recentCount(Append(alerts, alert), "asset_access_denied",
                                          300000, now)
         IN raiseAlert(alert, recentDenials >= smConfig.assetAccessDenials)

NotReported == [by |-> "none", threatLevel |-> "low"]

\* the onDetection callback of the monitor's DevToolsDetector
MonitorDevTools ==
  /\ isActive
  /\ Len(issued) < MaxAlerts
  /\ \E confidence \in Confidences : handleDevToolsDetection(confidence)
  /\ reported' = NotReported
  /\ UNCHANGED <<now, smConfig, isActive, monitoringTimer, metrics>>
  /\ UNCHANGED nonMonitorVars

MonitorIntegrity ==
  /\ Len(issued) < MaxAlerts
  /\ handleIntegrityViolation
  /\ reported' = NotReported
  /\ UNCHANGED <<now, smConfig, isActive, monitoringTimer, metrics>>
  /\ UNCHANGED nonMonitorVars

MonitorAssetDenial ==
  /\ Len(issued) < MaxAlerts
  /\ handleAssetAccessDenial
  /\ reported' = NotReported
  /\ UNCHANGED <<now, smConfig, isActive, monitoringTimer, metrics>>
  /\ UNCHANGED nonMonitorVars

\* processAlerts: old low-severity alerts are acknowledged
processAlerts(list) ==
  [k \in 1..Len(list) |->
     IF ~list[k].acknowledged /\ list[k].severity = "low"
        /\ list[k].timestamp < now - 3600000
       THEN [list[k] EXCEPT !.acknowledged = TRUE]
       ELSE list[k]]

cleanup(list) ==
  LET kept == SelectSeq(list, LAMBDA a : ~a.acknowledged \/ a.timestamp > now - 86400000)
  IN IF Len(kept) > 1000 THEN SubSeq(kept, Len(kept) - 999, Len(kept)) ELSE kept

\* checkForAnomalies logs, and so raises, on more than 20 recent alerts or a
\* slow page load
anomalyLogged(slowLoad) ==
  \/ Cardinality({k \in 1..Len(alerts) : now - alerts[k].timestamp < 300000}) > 20
  \/ slowLoad

\* the interval callback: performSecurityCheck
MonitorCheck ==
  /\ monitoringTimer
  /\ metrics' = updateMetrics
  /\ \E slowLoad \in BOOLEAN :
       /\ alerts' = IF smConfig.eventLogging /\ anomalyLogged(slowLoad)
                      THEN alerts
                      ELSE cleanup(processAlerts(alerts))
       /\ reported' = IF smConfig.eventLogging /\ anomalyLogged(slowLoad)
                        THEN NotReported
                        ELSE [by |-> "performSecurityCheck",
                              threatLevel |-> metrics'.threatLevel]
  /\ UNCHANGED <<now, smConfig, isActive, monitoringTimer, issued, blocked, warnings>>
  /\ UNCHANGED nonMonitorVars

MonitorGetMetrics ==
  /\ metrics' = updateMetrics
  /\ reported' = [by |-> "getMetrics", threatLevel |-> metrics'.threatLevel]
  /\ UNCHANGED <<now, smConfig, isActive, monitoringTimer, alerts, issued, blocked, warnings>>
  /\ UNCHANGED nonMonitorVars

\* getStatus: threatLevel: this.metrics.threatLevel || 'low'
MonitorGetStatus ==
  /\ reported' = [by |-> "getStatus",
                  threatLevel |-> IF metrics.threatLevel = "undefined"
                                    THEN "low" ELSE metrics.threatLevel]
  /\ UNCHANGED <<now, smConfig, isActive, monitoringTimer, alerts, metrics, issued,
                 blocked, warnings>>
  /\ UNCHANGED nonMonitorVars

\* updateConfig({ eventLogging: { enabled } })
MonitorUpdateConfig ==
  /\ \E enabled \in BOOLEAN :
       /\ enabled # smConfig.eventLogging
       /\ smConfig' = [smConfig EXCEPT !.eventLogging = enabled]
  /\ reported' = NotReported
  /\ UNCHANGED <<now, isActive, monitoringTimer, alerts, metrics, issued, blocked, warnings>>
  /\ UNCHANGED nonMonitorVars

MonitorClock ==
  /\ \E d \in MonitorSteps :
       /\ now + d <= MaxMonitorNow
       /\ now' = now + d
  /\ reported' = NotReported
  /\ UNCHANGED <<smConfig, isActive, monitoringTimer, alerts, metrics, issued, blocked, warnings>>
  /\ UNCHANGED nonMonitorVars

\* Array.prototype.sort with (a, b) => b.timestamp - a.timestamp: the array
\* itself is reordered, newest first, alerts of equal timestamp keeping their order
insertNewestFirst(sorted, a) ==
  SelectSeq(sorted, LAMBDA b : b.timestamp >= a.timestamp) \o <<a>>
    \o SelectSeq(sorted, LAMBDA b : b.timestamp < a.timestamp)

RECURSIVE sortNewestFirst(_)
sortNewestFirst(list) ==
  IF list = <<>> THEN <<>>
  ELSE insertNewestFirst(sortNewestFirst(SubSeq(list, 1, Len(list) - 1)), list[Len(list)])

\* getAlerts(): this.alerts.sort(...).slice(0, limit)
MonitorGetAlerts ==
  /\ alerts' = sortNewestFirst(alerts)
  /\ reported' = [by |-> "getAlerts", threatLevel |-> NotReported.threatLevel]
  /\ UNCHANGED <<now, smConfig, isActive, monitoringTimer, metrics, issued, blocked, warnings>>
  /\ UNCHANGED nonMonitorVars

\* acknowledgeAlert(alertId) of an alert that is in the list
MonitorAcknowledge ==
  /\ \E k \in 1..Len(alerts) :
       /\ \A j \in 1..(k - 1) : alerts[j].id # alerts[k].id
       /\ alerts' = [alerts EXCEPT ![k].acknowledged = TRUE]
  /\ reported' = NotReported
  /\ UNCHANGED <<now, smConfig, isActive, monitoringTimer, metrics, issued, blocked, warnings>>
  /\ UNCHANGED nonMonitorVars

\* a day and a millisecond pass
MonitorDay ==
  /\ now + DayStep <= MaxAlertsNow
  /\ now' = now + DayStep
  /\ reported' = NotReported
  /\ UNCHANGED <<smConfig, isActive, monitoringTimer, alerts, metrics, issued, blocked, warnings>>
  /\ UNCHANGED nonMonitorVars

MonitorInitWith(devToolsDetections, assetAccessDenials, blockOnCritical) ==
  /\ smConfig = [eventLogging |-> FALSE, devToolsDetections |-> devToolsDetections,
                 assetAccessDenials |-> assetAccessDenials, autoResponse |-> TRUE,
                 blockOnCritical |-> blockOnCritical, warningOnMedium |-> TRUE]
  /\ isActive = TRUE
  /\ monitoringTimer = TRUE
  /\ alerts = <<>>
  /\ metrics = [threatLevel |-> "undefined"]
  /\ issued = <<>>
  /\ reported = NotReported
  /\ blocked = FALSE
  /\ warnings = 0

MonitorInit ==
  \E c \in MonitorConfigs :
    MonitorInitWith(c.devToolsDetections, c.assetAccessDenials, c.blockOnCritical)

MonitorIdle == MonitorInitWith(3, 5, FALSE)

\* ------------------------------------------------------------------------
\* The monitor's detector wired to its logger
\* ------------------------------------------------------------------------
\* the logger the monitor builds from eventLogging { enabled: false, batchSize: 5 }
WiredLoggerInit == \E endpoint \in BOOLEAN : LoggerConstructed(FALSE, endpoint, 5, 3, <<>>)

\* logDevToolsDetection: logEvent('devtools_detected', ..., severity, 'DevToolsDetector')
logDevToolsDetection(confidence, depth) ==
  IF ~elConfig.enabled
    THEN /\ logCalls' = [logCalls EXCEPT !.last = "empty"]
         /\ UNCHANGED <<eventQueue, inFlight, localStore, nextId, created>>
    ELSE LET p == consoleOverflow(logEventBody(Here,
                                               IF confidence > 800 THEN "high" ELSE "medium",
                                               "DevToolsDetector"),
                                  "low", depth)
         IN /\ Fits(p)
            /\ Commit(p)
            /\ logCalls' = [accepted |-> logCalls.accepted + 1, last |-> "RangeError"]

\* DevToolsDetector.handleDetection with the monitor's onDetection callback:
\* the RangeError of an enabled logger unwinds the callback and the handler, a
\* disabled logger lets both run on to the warning and the block
WiredDetection ==
  /\ isActive
  /\ lastTick.n < MaxTicks
  /\ \E method \in {"timing", "resize"}, confidence \in Confidences, depth \in Depths :
       /\ confidence >= dtConfig.confidenceThreshold
       /\ lastDetection' = [detected |-> TRUE, method |-> method,
                            confidence |-> confidence, timestamp |-> now]
       /\ logDevToolsDetection(confidence, depth)
       /\ handleDevToolsDetection(confidence)
       /\ warningShown' = (warningShown \/ ~elConfig.enabled)
       /\ lastTick' = [n |-> lastTick.n + 1, results |-> <<lastDetection'>>,
                       calls |-> << <<method, confidence>> >>,
                       threw |-> elConfig.enabled \/ dtConfig.blockOnDetection]
  /\ reported' = NotReported
  /\ UNCHANGED <<now, dtConfig, isDetecting, detectionInterval, detectionHistory>>
  /\ UNCHANGED <<sessionId, elConfig, retryQueue, isOnline, flushTimer, retryTimers,
                 delivered, dropped, quiet>>
  /\ UNCHANGED <<smConfig, isActive, monitoringTimer, metrics>>
  /\ UNCHANGED <<grantVars, rateVars, integrityVars>>

\* SecurityMonitor.updateConfig({ eventLogging: { enabled } }), handed on to the logger
WiredUpdateConfig ==
  /\ \E enabled \in BOOLEAN :
       /\ enabled # elConfig.enabled
       /\ elConfig' = [elConfig EXCEPT !.enabled = enabled]
       /\ smConfig' = [smConfig EXCEPT !.eventLogging = enabled]
  /\ quiet' = FALSE
  /\ reported' = NotReported
  /\ UNCHANGED <<sessionId, eventQueue, retryQueue, isOnline, flushTimer, retryTimers,
                 inFlight, localStore, nextId, created, delivered, dropped, logCalls>>
  /\ UNCHANGED <<now, isActive, monitoringTimer, alerts, metrics, issued, blocked, warnings>>
  /\ UNCHANGED <<grantVars, rateVars, devToolsVars, integrityVars>>

\* ========================================================================
\* Specifications
\* ========================================================================
InitGrant == now = 0 /\ GrantInit /\ RateInit /\ DevToolsIdle /\ IntegrityIdle /\ PipelineIdle /\ MonitorIdle
NextGrant == GrantIssue \/ GrantValidate \/ GrantRevoke \/ GrantSweep \/ GrantClock
SpecGrant == InitGrant /\ [][NextGrant]_vars

\* the service behind its proxy endpoint: requests reach validateSignedUrl
\* through the middleware only
InitProxy == InitGrant /\ urlExpiration = 1
NextProxy == GrantIssue \/ GrantProxy \/ GrantRevoke \/ GrantSweep \/ GrantClock
SpecProxy == InitProxy /\ [][NextProxy]_vars

InitRate == now = 0 /\ GrantIdle /\ RateInit /\ DevToolsIdle /\ IntegrityIdle /\ PipelineIdle /\ MonitorIdle
NextRate == RateCheck \/ RateClock
SpecRate == InitRate /\ [][NextRate]_vars

InitBusy ==
  RateInitBusy /\ GrantIdle /\ DevToolsIdle /\ IntegrityIdle /\ PipelineIdle /\ MonitorIdle
NextBusy == RateCheck \/ RateHalfWindow
SpecBusy == InitBusy /\ [][NextBusy]_vars

\* requests made through the replaced window.fetch
NextFetch == RateFetch \/ RateHalfWindow
SpecFetch == InitBusy /\ [][NextFetch]_vars

NextRateLife == RateCheck \/ RateHalfWindow \/ RateHour \/ RateRotate \/ RateDestroy
SpecRateLife == InitBusy /\ [][NextRateLife]_vars

InitDevTools == now = 0 /\ GrantIdle /\ RateInit /\ DevToolsInit /\ IntegrityIdle /\ PipelineIdle /\ MonitorIdle
NextDevTools == DevToolsStart \/ DevToolsTick \/ DevToolsStop
SpecDevTools == InitDevTools /\ [][NextDevTools]_vars

InitIntegrity == now = 0 /\ GrantIdle /\ RateInit /\ DevToolsIdle /\ IntegrityInit /\ PipelineIdle /\ MonitorIdle
NextIntegrity ==
  \/ IntegrityTick \/ IntegrityVerify \/ IntegrityResume
  \/ IntegrityStop \/ IntegrityRestart \/ IntegrityUpdateConfig \/ DomChange
SpecIntegrity == InitIntegrity /\ [][NextIntegrity]_vars

InitPipeline == now = 0 /\ GrantIdle /\ RateInit /\ DevToolsIdle /\ IntegrityIdle /\ PipelineInit /\ MonitorIdle
NextPipeline ==
  \/ PipelineLogEvent \/ PipelineFlushTick \/ PipelineSettle
  \/ PipelineRetryTimer \/ PipelineRetrySettle \/ PipelineOnline \/ PipelineOffline
  \/ PipelineUpdateConfig \/ PipelineReload
SpecPipeline == InitPipeline /\ [][NextPipeline]_vars

NextTeardown == NextPipeline \/ PipelineDestroy
SpecTeardown == InitPipeline /\ [][NextTeardown]_vars

InitOneRetry ==
  now = 0 /\ GrantIdle /\ RateInit /\ DevToolsIdle /\ IntegrityIdle /\ PipelineInitOneRetry
  /\ MonitorIdle
SpecOneRetry == InitOneRetry /\ [][NextPipeline]_vars

InitBacklog ==
  now = 0 /\ GrantIdle /\ RateInit /\ DevToolsIdle /\ IntegrityIdle /\ PipelineInitBacklog
  /\ MonitorIdle
SpecBacklog == InitBacklog /\ [][NextPipeline]_vars

InitMonitor ==
  now = 0 /\ GrantIdle /\ RateInit /\ DevToolsIdle /\ IntegrityIdle /\ PipelineIdle
  /\ MonitorInit
NextMonitor ==
  \/ MonitorDevTools \/ MonitorIntegrity \/ MonitorAssetDenial \/ MonitorCheck
  \/ MonitorGetMetrics \/ MonitorGetStatus
  \/ MonitorUpdateConfig \/ MonitorClock
SpecMonitor == InitMonitor /\ [][NextMonitor]_vars

\* the monitor with its detector and its logger
InitWired ==
  now = 0 /\ GrantIdle /\ RateInit /\ DevToolsInit /\ IntegrityIdle /\ WiredLoggerInit
  /\ MonitorInit
NextWired ==
  \/ WiredDetection \/ WiredUpdateConfig \/ PipelineFlushTick \/ PipelineSettle
  \/ MonitorClock
SpecWired == InitWired /\ [][NextWired]_vars

\* the monitor with its alert queries, acknowledgement by hand and a long clock
InitAlerts ==
  now = 0 /\ GrantIdle /\ RateInit /\ DevToolsIdle /\ IntegrityIdle /\ PipelineIdle
  /\ MonitorIdle
NextAlerts ==
  \/ MonitorDevTools \/ MonitorIntegrity \/ MonitorAssetDenial \/ MonitorCheck
  \/ MonitorGetMetrics \/ MonitorGetStatus \/ MonitorGetAlerts
  \/ MonitorAcknowledge \/ MonitorDay
SpecAlerts == InitAlerts /\ [][NextAlerts]_vars

\* ------------------------------------------------------------------------
\* Properties of the AssetProtectionService
\* ------------------------------------------------------------------------
\* the last validateSignedUrl call presented what was issued for grant g
LastCallIssued(g) ==
  /\ lastValidate.seq > 0
  /\ lastValidate.token = g.token
  /\ lastValidate.sig = g.signature
  /\ lastValidate.exp = g.expires

\* C1: a call with the issued token, signature and expiry returns the path at
\* every time strictly before expiresAt (the mapping being in the store) and
\* fails with "Token expired", the mapping evicted, at every time at or after
\* expiresAt.
C1_ExpiresAtOrAfterExpiry ==
  \A g \in grants :
    LastCallIssued(g) /\ lastValidate.found =>
      IF lastValidate.at < g.expires
        THEN lastValidate.ret = g.path
        ELSE /\ lastValidate.ret = Null
             /\ lastValidate.reason = "Token expired"
             /\ ~lastValidate.inCache

\* C2: for a grant in the store and before its expiry, a call with the issued
\* token and expiry and any other signature fails with "Invalid signature"
\* and returns no path.
C2_SignatureMismatch ==
  \A g \in grants :
    ( /\ lastValidate.seq > 0
      /\ lastValidate.token = g.token
      /\ lastValidate.exp = g.expires
      /\ lastValidate.sig # g.signature
      /\ lastValidate.found
      /\ lastValidate.at < g.expires )
    => (lastValidate.ret = Null /\ lastValidate.reason = "Invalid signature")

C2_Witness ==
  \E g \in grants :
    /\ lastValidate.seq > 0
    /\ lastValidate.token = g.token
    /\ lastValidate.exp = g.expires
    /\ lastValidate.sig # g.signature
    /\ lastValidate.found
    /\ lastValidate.at < g.expires
    /\ lastValidate.reason = "Invalid signature"

\* C3: any two calls with the issued token, signature and expiry, both before
\* the issued expiry and with no revokeAllTokens since the issue, both return
\* the path given at issuance.
C3_Idempotent ==
  \A t \in Tokens : pairLog[t].calls >= 2 => pairLog[t].ok = pairLog[t].calls

\* C4: after revokeAllTokens no token issued before it is in the store, and a
\* validateSignedUrl call that runs after it for such a token returns no path.
C4_RevocationWins ==
  /\ \A t \in revoked : t \notin DOMAIN tokenCache
  /\ lastValidate.seq > 0 /\ lastValidate.wasRevoked => lastValidate.ret = Null

C4_Witness ==
  \E g \in grants :
    /\ LastCallIssued(g)
    /\ lastValidate.wasRevoked
    /\ lastValidate.at < g.expires
    /\ lastValidate.reason = "Token not found"

\* C25: a token that validateSignedUrl has accepted once (it returned the
\* issued path) is not accepted a second time.
C25_ReplayRejected ==
  \A t \in Tokens : pairLog[t].ok <= 1

\* C27: apart from revokeAllTokens, no step removes from the store a grant
\* whose stored expiry has not passed; in particular a validateSignedUrl call
\* that fails leaves every unexpired grant in place.
C27_OnlyExpiredRemoved ==
  [][revoked' = revoked =>
       \A t \in DOMAIN tokenCache :
          now <= tokenCache[t].expires => t \in DOMAIN tokenCache']_vars

\* ------------------------------------------------------------------------
\* Properties of the rate limiter
\* ------------------------------------------------------------------------
\* C5: for every key, a call that is among the first 100 of its window
\* passes, the 101st call of the window throws, and a call that opens a new
\* window after a rollover (now - windowStart > windowSize) passes and leaves
\* the entry with count 1 and windowStart = now.
C5_CeilingAndRollover ==
  lastCheck.key # NoKey =>
    LET w == window[lastCheck.key]
        e == rateLimitStore[lastCheck.key]
    IN /\ w.calls <= 100 => ~lastCheck.threw
       /\ w.calls = 101 => lastCheck.threw
       /\ w.calls = 1 =>
             (~lastCheck.threw /\ e.count = 1 /\ e.firstRequest = w.start)

\* one key has had the 101st call of its window, another key a call that
\* opened a new window after a rollover
C5_Witness ==
  /\ lastCheck.key # NoKey
  /\ window[lastCheck.key].calls = 1
  /\ window[lastCheck.key].start > 0
  /\ ~lastCheck.threw
  /\ rateLimitStore[lastCheck.key].count = 1
  /\ \E k \in RateKeys : k # lastCheck.key /\ window[k].calls = 101

\* the passing calls in the log
RECURSIVE Passed(_)
Passed(log) == IF log = <<>> THEN 0 ELSE Head(log).n + Passed(Tail(log))

\* C21: in every time interval of length windowSize at most maxRequests calls
\* for a key pass: the passing calls of the key that lie less than windowSize
\* before its last passing call, that call included, number at most 100.
C21_SlidingWindowBound == Passed(passLog.log) <= maxRequests

\* C22: a call that fails with 'Rate limit exceeded' leaves the key's entry
\* marked blocked, and while the window of a blocked entry has not run out
\* (now - windowStart <= windowSize) no step removes the mark or the entry and
\* every call for the key fails.
C22_BlockedUntilReset ==
  [][/\ (rateCalls' # rateCalls /\ lastCheck'.threw) =>
          (lastCheck'.key \in DOMAIN rateLimitStore'
             /\ rateLimitStore'[lastCheck'.key].blocked)
     /\ \A k \in RateKeys :
          (/\ k \in DOMAIN rateLimitStore
           /\ rateLimitStore[k].blocked
           /\ now - rateLimitStore[k].firstRequest <= windowSize) =>
             /\ k \in DOMAIN rateLimitStore'
             /\ rateLimitStore'[k].blocked
             /\ (rateCalls' # rateCalls /\ lastCheck'.key = k) => lastCheck'.threw]_vars

\* C23: once destroy() of the logger has returned, no timer of the logger does
\* further work: the flush interval stays cleared and no callback of
\* scheduleRetry hands a batch to sendBatch, so that the final flush made by
\* destroy() is the last transmission attempt.
C23_NoTimerWorkAfterDestroy ==
  [][(~flushTimer /\ ~flushTimer') =>
        (retryTimers' < retryTimers => inFlight' = inFlight)]_vars

\* C24: in the session of a logger constructed over pending stored batches,
\* no batch of events logged in that session is on the wire while a reloaded
\* batch still waits in the retry queue for its first retransmission.
C24_PendingBeforeNew ==
  (sessionId = 1 /\ \E i \in 1..Len(inFlight) :
                      inFlight[i].phase = "fetching" /\ inFlight[i].batch.batchId > 0) =>
     \A k \in 1..Len(retryQueue) :
        ~(retryQueue[k].batchId < 0 /\ retryQueue[k].attempts = 0)

\* ------------------------------------------------------------------------
\* Properties of the DevToolsDetector
\* ------------------------------------------------------------------------
\* the results of the last tick that are detected with confidence >= threshold
Qualifying ==
  {i \in 1..Len(lastTick.results) :
     /\ lastTick.results[i].detected
     /\ lastTick.results[i].confidence >= dtConfig.confidenceThreshold}

\* C10: in every tick the detection handler is invoked exactly once if some
\* enabled probe reports detected with confidence >= threshold and not at all
\* otherwise, and the invocation carries the method and confidence of a
\* qualifying result of maximum confidence.
C10_OneInvocationPerTick ==
  lastTick.n > 0 =>
    IF Qualifying = {}
      THEN lastTick.calls = <<>>
      ELSE /\ Len(lastTick.calls) = 1
           /\ \E i \in Qualifying :
                /\ lastTick.calls[1] = <<lastTick.results[i].method,
                                         lastTick.results[i].confidence>>
                /\ \A j \in Qualifying :
                     lastTick.results[j].confidence <= lastTick.results[i].confidence

\* two probes qualify with different confidences, the second one higher
C10_Witness ==
  /\ lastTick.n > 0
  /\ Len(lastTick.calls) = 1
  /\ \E i, j \in Qualifying :
       /\ i < j
       /\ lastTick.results[i].confidence < lastTick.results[j].confidence
       /\ lastTick.calls[1][1] = lastTick.results[j].method

\* ------------------------------------------------------------------------
\* Properties of the IntegrityVerifier
\* ------------------------------------------------------------------------
\* C9: over the cycles in which an element stays mismatched, exactly one
\* critical event is emitted for it, in the cycle in which its failure
\* counter reaches maxFailures: none before, no further one after.
C9_OneCriticalEvent ==
  \A id \in DOMAIN checks :
    ~checks[id].verified =>
      emitted[id].critical = IF checks[id].failureCount >= ivConfig.maxFailures
                               THEN 1 ELSE 0

\* ------------------------------------------------------------------------
\* SecurityEventLogger: batching, retry and fallback storage
\* ------------------------------------------------------------------------
EventIds(events) == [k \in 1..Len(events) |-> events[k].id]

FromProducers(events) == \A k \in 1..Len(events) : events[k].source = "producer"

\* C6: on an online, enabled pipeline that started with an empty queue and has
\* seen nothing but logEvent calls, once batchSize events have been enqueued
\* through logEvent exactly one batch has been built, it holds exactly those
\* batchSize events in enqueue order, and the queue is empty.
C6_OneAutomaticFlush ==
  (quiet /\ elConfig.enabled /\ isOnline /\ logCalls.accepted = elConfig.batchSize)
    => /\ Len(created) = 1
       /\ Len(created[1].events) = elConfig.batchSize
       /\ FromProducers(created[1].events)
       /\ \A k \in 1..(Len(created[1].events) - 1) :
            created[1].events[k].id < created[1].events[k + 1].id
       /\ eventQueue = <<>>

\* C7: a batch whose transmission has failed fewer than maxRetries times is
\* not given up (it is delivered or another attempt is still to come), and a
\* delivered batch was accepted on the attempt after its last failure with its
\* events in the order in which it was built.
C7_DeliveredAfterFailures ==
  /\ \A d \in dropped :
       d.why \in {"console", "exhausted"} => d.batch.failures >= elConfig.maxRetries
  /\ \A k \in 1..Len(delivered) :
       /\ delivered[k].attempts = delivered[k].failures + 1
       /\ EventIds(delivered[k].events) = EventIds(created[delivered[k].batchId].events)

Holds(batches, batchId) == \E k \in 1..Len(batches) : batches[k].batchId = batchId

\* C8: a batch whose retries against a configured endpoint are exhausted is
\* in local fallback storage, or, once a later logger has reloaded the
\* storage, among the pending batches of that logger.
C8_ExhaustedBatchPersisted ==
  \A d \in dropped :
    (elConfig.endpoint /\ d.why = "exhausted")
      => \/ Holds(localStore, d.batch.batchId)
         \/ Holds(retryQueue, d.batch.batchId)
         \/ \E i \in 1..Len(inFlight) : inFlight[i].batch.batchId = d.batch.batchId

BatchesHolding(e) ==
  {b \in 1..Len(created) : \E k \in 1..Len(created[b].events) : created[b].events[k].id = e}
Queued(e) == \E k \in 1..Len(eventQueue) : eventQueue[k].id = e

\* C28: every event created so far is either still in the queue or in exactly
\* one batch; the events of a batch are a contiguous run of the enqueue
\* sequence, in that order; and a batch that was delivered is neither on the
\* wire nor in the retry queue, nor delivered twice.
C28_BatchedExactlyOnce ==
  /\ \A e \in 1..(nextId - 1) :
        IF Queued(e) THEN BatchesHolding(e) = {}
                     ELSE Cardinality(BatchesHolding(e)) = 1
  /\ \A b \in 1..Len(created) :
        \A k \in 1..(Len(created[b].events) - 1) :
           created[b].events[k + 1].id = created[b].events[k].id + 1
  /\ \A d \in 1..Len(delivered) :
        /\ \A i \in 1..Len(inFlight) : inFlight[i].batch.batchId # delivered[d].batchId
        /\ \A k \in 1..Len(retryQueue) : retryQueue[k].batchId # delivered[d].batchId
        /\ \A c \in 1..Len(delivered) :
              delivered[c].batchId = delivered[d].batchId => c = d

\* two batches were made, one of them of several events and delivered after a
\* failed first transmission, while a later event waits in the queue
C28_Witness ==
  /\ Len(created) = 2
  /\ eventQueue # <<>>
  /\ \E d \in 1..Len(delivered) :
        delivered[d].failures >= 1 /\ Len(delivered[d].events) >= 2

\* C30: the events of a batch are never modified: wherever a batch of this
\* program run is (waiting for a retry, on the wire or delivered) it holds the
\* events it was made with, field for field.
C30_EventsNeverModified ==
  /\ \A k \in 1..Len(retryQueue) :
        retryQueue[k].batchId > 0 =>
          retryQueue[k].events = created[retryQueue[k].batchId].events
  /\ \A i \in 1..Len(inFlight) :
        inFlight[i].batch.batchId > 0 =>
          inFlight[i].batch.events = created[inFlight[i].batch.batchId].events
  /\ \A d \in 1..Len(delivered) :
        delivered[d].batchId > 0 =>
          delivered[d].events = created[delivered[d].batchId].events

\* C31: no batch is handed to the transport more often than once for its
\* flush and config.maxRetries times for its retries.
C31_RetriesBounded ==
  \A i \in 1..Len(inFlight) :
     inFlight[i].batch.attempts <= 1 + elConfig.maxRetries

\* C34: a batch that was reloaded from fallback storage and waits in the retry
\* queue for its retransmission (no transmission of it has failed in this
\* session) is still in fallback storage.
C34_ReloadedStayStored ==
  \A k \in 1..Len(retryQueue) :
     retryQueue[k].failures = 0 => Holds(localStore, retryQueue[k].batchId)

\* C26: as long as only producers have called logEvent, the events created
\* number the calls accepted by the enabled logger: each call adds exactly
\* one event and the logger's own console output adds none.
C26_OneEventPerCall ==
  (sessionId = 1 /\ quiet) => nextId - 1 = logCalls.accepted

\* C11: a logEvent call on an enabled pipeline returns an event id to the
\* producer and raises no error, whatever happens to transmissions.
C11_LogEventNeverRaises == logCalls.last # "RangeError"

\* every event that has been created and is still known: queued, or in a batch
KnownEvents ==
  {eventQueue[k] : k \in 1..Len(eventQueue)}
    \cup UNION {{created[b].events[k] : k \in 1..Len(created[b].events)} : b \in 1..Len(created)}

\* the step is a producer's logEvent call accepted by an enabled logger
IsAcceptedCall == logCalls'.accepted = logCalls.accepted + 1

\* the event a producer's call has just created
CalledEvent(severity) ==
  [id |-> nextId, severity |-> severity, source |-> "producer", retryCount |-> 0]

C13_FailureIsolated ==
  /\ lastResult.value \in BOOLEAN
  /\ lastResult.skipped = <<>>

\* the failure counter of an element before a step
CountBefore(id) == IF id \in DOMAIN checks THEN checks[id].failureCount ELSE 0

C32_BaselineReadOnly ==
  [][/\ \A id \in DOMAIN buildTimeHashes :
          id \in DOMAIN buildTimeHashes' /\ buildTimeHashes'[id] = buildTimeHashes[id]
     /\ \A id \in DOMAIN buildTimeHashes' \ DOMAIN buildTimeHashes :
          /\ emitted'[id] = emitted[id]
          /\ id \notin DOMAIN checks'
          /\ \A i \in 1..Len(passes') :
                passes'[i].allValid = (IF i <= Len(passes) THEN passes[i].allValid ELSE TRUE)
     ]_vars

\* an element first seen with modified content was adopted with that content
\* as its baseline, and a later check that saw other content has recorded a
\* mismatch against it
C32_Witness ==
  /\ ElementIds[2] \in DOMAIN buildTimeHashes
  /\ buildTimeHashes[ElementIds[2]] = generateHash("modified", ElementIds[2])
  /\ ElementIds[2] \in DOMAIN checks
  /\ ~checks[ElementIds[2]].verified

\* C33: a performIntegrityCheck call that resolved to true has compared the
\* monitored elements with their baseline.
C33_TrueOnlyAfterComparison == lastResult.value = TRUE => lastResult.compared

\* C14: at most one pass of performIntegrityCheck is in progress at any time,
\* whatever the interleaving of timer ticks, verify(), stop(), restart() and
\* updateConfig().
C14_NoOverlappingPasses == Len(passes) <= 1

\* ------------------------------------------------------------------------
\* SecurityEventLogger: overlap of flushes, stored batches
\* ------------------------------------------------------------------------
\* the flush() activations whose request has not been answered yet
FlushesInFlight == SelectSeq(inFlight, LAMBDA a : a.kind = "flush" /\ a.phase = "fetching")

\* C15: at most one flush is in flight at any time; a trigger that arrives
\* while the transmission of an earlier flush is pending starts no second one.
C15_OneFlushInFlight == Len(FlushesInFlight) <= 1

\* C16: in every reachable state the batches in local fallback storage plus
\* the batches in the retry queue number at most the cap.
C16_StoredBatchesCapped == Len(localStore) + Len(retryQueue) <= MaxStoredBatches

\* ------------------------------------------------------------------------
\* Properties of the SecurityMonitor
\* ------------------------------------------------------------------------
\* the threat level the alert list stands for
DerivedThreatLevel ==
  IF \E k \in 1..Len(alerts) : alerts[k].severity = "critical" THEN "critical"
  ELSE IF Cardinality({k \in 1..Len(alerts) : alerts[k].severity = "high"}) > 2 THEN "high"
  ELSE IF Len(alerts) > 10 THEN "medium"
  ELSE "low"

\* C17: the threat level that getMetrics() or getStatus() has just returned is
\* the one derived from the current alert list: critical with any critical
\* alert, else high with more than 2 high alerts, else medium with more than 10
\* alerts, else low.
C17_ThreatLevelIsDerived ==
  reported.by \in {"getMetrics", "getStatus"} => reported.threatLevel = DerivedThreatLevel

\* C36: the background sweep is housekeeping only: whatever the interleaving
\* of sweep ticks with issue and validate calls, a validate call returns what the
\* same call returns in the run without the sweep (null, or the same path).
C36_SweepIsHousekeeping ==
  lastValidate.seq > 0 => lastValidate.ret = lastValidate.retUnswept

\* a validate call for a grant that the sweep had removed and that the run
\* without the sweep still holds
C36_Witness ==
  /\ lastValidate.seq > 0
  /\ ~lastValidate.found
  /\ lastValidate.foundUnswept
  /\ lastValidate.ret = Null

\* C40: with rate limiting enabled, an intercepted request whose rate-limit
\* check fails makes no call of the original fetch and rejects to its caller,
\* and a request whose check passes makes exactly one call of the original fetch.
C40_ForwardedIffPassed ==
  /\ fetchLog.sent = fetchLog.requests - fetchLog.failed
  /\ fetchLog.lastFailed => fetchLog.rejected

\* requests of both kinds have been made, the last one failing its check
C40_Witness ==
  /\ fetchLog.failed > 0
  /\ fetchLog.sent > 0
  /\ fetchLog.lastFailed

\* the devtools_detected events enqueued so far, queued or batched
DetectionEvents ==
  {e \in {eventQueue[k] : k \in 1..Len(eventQueue)}
          \cup UNION {{created[b].events[k] : k \in 1..Len(created[b].events)} :
                      b \in 1..Len(created)} :
     e.source = "DevToolsDetector"}

\* C38: every detection handed to the detection handler has enqueued exactly one
\* devtools_detected event, of severity high for a confidence above 0.8 and
\* medium otherwise.
C38_OneEventPerDetection ==
  /\ Cardinality(DetectionEvents) = lastTick.n
  /\ lastTick.n > 0 =>
       \E e \in DetectionEvents :
         /\ \A f \in DetectionEvents : f.id <= e.id
         /\ e.severity = IF lastDetection.confidence > 800 THEN "high" ELSE "medium"

\* the probes of the last tick saw no inspection tool: no timing overhead, no
\* window gap, no breakpoint hit, and the console call went through
QuietTick ==
  /\ lastTick.n > 0
  /\ \A i \in 1..Len(lastTick.results) :
       IF lastTick.results[i].method = "console"
         THEN lastTick.results[i].confidence # 600
         ELSE ~lastTick.results[i].detected

\* C39: a detection tick in which no inspection tool is active invokes the
\* detection handler not at all, under threshold 0.8 as under threshold 0.7.
C39_NoFalsePositive == QuietTick => lastTick.calls = <<>>

\* C35: getAlerts, getStatus and getMetrics are pure queries of the alert list:
\* a step of one of them leaves the list, its set and its stored order, as it was.
C35_QueriesLeaveAlerts ==
  [][reported'.by \in {"getAlerts", "getStatus", "getMetrics"} => alerts' = alerts]_vars

\* C37: after every completed performSecurityCheck tick the list holds no alert
\* older than 24 hours and at most 1000 alerts.
C37_TickBoundsAlerts ==
  reported.by = "performSecurityCheck"
    => /\ \A k \in 1..Len(alerts) : now - alerts[k].timestamp <= 86400000
       /\ Len(alerts) <= 1000

\* the rolling window and the threshold of an alert type
WindowOf(type) == IF type = "devtools_detected" THEN 60000 ELSE 300000

ThresholdOf(type) ==
  IF type = "devtools_detected" THEN smConfig.devToolsDetections
                                ELSE smConfig.assetAccessDenials

\* alerts of the type of the i-th alert created, inside its window when it was created
InWindow(i) ==
  {j \in 1..i : /\ issued[j].alert.type = issued[i].alert.type
                /\ issued[i].alert.timestamp - issued[j].alert.timestamp
                     < WindowOf(issued[i].alert.type)}

\* C18: escalateAlert is called for every critical alert, and for a
\* non-critical alert exactly when the alerts of its type inside the type's
\* rolling window have reached the type's threshold.
C18_EscalationPolicy ==
  \A i \in 1..Len(issued) :
    issued[i].escalated <=>
      \/ issued[i].alert.severity = "critical"
      \/ Cardinality(InWindow(i)) >= ThresholdOf(issued[i].alert.type)

\* an escalated critical alert, a non-critical alert escalated at its threshold,
\* and a non-critical alert below its threshold that was not escalated
C18_Witness ==
  /\ \E i \in 1..Len(issued) : issued[i].alert.severity = "critical" /\ issued[i].escalated
  /\ \E i \in 1..Len(issued) :
       /\ issued[i].alert.severity # "critical"
       /\ issued[i].escalated
  /\ \E i \in 1..Len(issued) :
       /\ issued[i].alert.severity # "critical"
       /\ ~issued[i].escalated

\* ------------------------------------------------------------------------
\* AssetProtectionService: resource types
\* ------------------------------------------------------------------------
\* the path ends in one of the allow-listed extensions
EndsInAllowedExtension(assetPath) ==
  \E e \in allowedExtensions :
    /\ Len(assetPath) >= Len(e)
    /\ SubSeq(assetPath, Len(assetPath) - Len(e) + 1, Len(assetPath)) = e

\* C20: on an enabled service a generateSignedUrl call for a path whose
\* extension is not allow-listed fails, returns no token and leaves the grant
\* store as it was.
C20_UnsupportedTypeIssuesNothing ==
  [][\A assetPath \in Paths :
       (apsEnabled /\ ~EndsInAllowedExtension(assetPath) /\ generateSignedUrl(assetPath))
         => /\ issueResult'.kind = "throw"
            /\ issueResult'.token = UnknownToken
            /\ tokenCache' = tokenCache
            /\ grants' = grants]_vars

\* a rejected call made while a grant is in the store
C20_Witness == issueResult.kind = "throw" /\ DOMAIN tokenCache # {}

\* ------------------------------------------------------------------------
\* AssetProtectionService: the proxy middleware
\* ------------------------------------------------------------------------
\* what the caller sees of a response
Visible(r) == [status |-> r.status, body |-> r.body, headers |-> r.headers, url |-> r.url]

FailureKinds == {"missing", "disabled", "Token not found", "Token expired", "Invalid signature"}

\* C19: whatever the failure kind (a missing parameter, an unknown token, an
\* expired grant, a signature mismatch), the middleware answers with the same
\* HTTP 403 and body and does not pass the request on; a request is passed on
\* only with the path of a grant that validated.
C19_UniformDenial ==
  /\ response.cause \in FailureKinds =>
       /\ Visible(response) = [status |-> 403, body |-> "Access denied", headers |-> {},
                               url |-> Null]
       /\ ~response.next
  /\ response.next => response.cause = "" /\ response.url = lastValidate.ret
                      /\ lastValidate.ret # Null

\* a request denied because the presented grant had expired
C19_Witness == response.cause = "Token expired" /\ response.status = 403

====
